---- MODULE Spec2Model ----
(***************************************************************************)
(* A model of mesa_reader (src/mesa_reader/__init__.py): the MesaData      *)
(* table with its derived-field resolver and history filter, the           *)
(* MesaProfileIndex catalog and the MesaLogDir facade with its profile     *)
(* cache.                                                                  *)
(*                                                                         *)
(* Conventions.  Python's 0-based positions are kept: a numpy array is a   *)
(* sequence a whose Python element a[i] is a[i + 1] here, and every index  *)
(* the model stores or returns (to_remove, index_of_model_number) is the   *)
(* Python index.  Column and header names are strings.  The result of the  *)
(* last call is kept in ret, as the value returned or the exception        *)
(* raised.                                                                 *)
(***************************************************************************)
EXTENDS Integers, Sequences, FiniteSets, TLC

VARIABLES
    history_file,   \* the history file on disk: header names and values, column
                    \* names, data rows
    constructed,    \* whether the MesaData object exists (its constructor returned)
    bulk_names,     \* MesaData.bulk_names
    bulk_data,      \* MesaData.bulk_data: [ndim, cols], cols a column per name
    header_names,   \* MesaData.header_names
    header_data,    \* MesaData.header_data
    file_name,      \* MesaData.file_name
    arg,            \* the key of the lookups made on the table (SpecResolver)
    scan,           \* where a running read_model_data is: its loop, its line index
                    \* i, found_blank_line and temp_data
    calls,          \* remove_backups runs on the present bulk_data so far (capped)
    on_disk,        \* what os.path.isdir and os.path.isfile answer for the log
                    \* directory, its history file and its index file
    index_file,     \* the data rows of the profile index file on disk, each
                    \* <<model_number, priority, profile_number>>
    index_names,    \* MesaProfileIndex.index_names, the class attribute
    profiles,       \* the MesaProfileIndex object (MesaLogDir.profiles, if a log
                    \* directory made it)
    logdir,         \* the MesaLogDir object; its history is the MesaData above
    ret             \* outcome of the last call

mdvars == <<constructed, file_name, bulk_names, bulk_data, header_names, header_data>>

\* what no method of MesaData changes
outside == <<arg, scan, on_disk, index_file, index_names, profiles, logdir>>

vars == <<history_file, constructed, file_name, bulk_names, bulk_data,
          header_names, header_data, arg, scan, calls, on_disk, index_file,
          index_names,
          profiles, logdir, ret>>

\* no read_model_data is running
NoScan == [pc |-> "idle"]

-----------------------------------------------------------------------------
(* Bounds of the model.                                                    *)

MaxRows == 5        \* data rows of a history file or table
MaxModel == 3       \* model numbers are 1..MaxModel
MaxCalls == 2       \* remove_backups runs counted on one table
MaxCols == 2        \* columns of a table whose names are looked up
MaxKeyLen == 3      \* every key of up to this many characters is looked up
MaxIndexRows == 3   \* data rows of the profile index file
MaxProfile == 3     \* profile numbers are 1..MaxProfile
MaxPriority == 1    \* priorities are 1..MaxPriority
MaxSelectRows == 3  \* data rows of the history file of a log directory asked to select
MaxTextRows == 3    \* data rows of a history file given by its lines
MaxTextLines == 10  \* lines of such a file, a comment line included
MaxRun == 2         \* lines of a preamble, a run of blank lines, a header block or a data
                    \* block of a model file

-----------------------------------------------------------------------------
(* Sequences and arrays.                                                   *)

Range(s) == {s[i] : i \in DOMAIN s}

Min(S) == CHOOSE x \in S : \A y \in S : x <= y

Max(S) == CHOOSE x \in S : \A y \in S : x >= y

\* The 1-based position of name n in the sequence of names (first occurrence).
Pos(names, n) == CHOOSE i \in DOMAIN names :
                    names[i] = n /\ \A j \in DOMAIN names : names[j] = n => i <= j

\* a[i + 1:] of Python, for the Python index i
Later(a, i) == SubSeq(a, i + 2, Len(a))

\* The members of a finite set of integers in ascending order: the order in
\* which a loop over range(n) appends the indices it selects.
RECURSIVE InOrder(_)
InOrder(S) == IF S = {} THEN <<>> ELSE <<Min(S)>> \o InOrder(S \ {Min(S)})

\* numpy.delete(a, idx) on a one-dimensional array: the elements whose Python
\* index is not in idx, in their order
RECURSIVE np_delete_from(_, _, _)
np_delete_from(a, idx, i) ==
    IF i >= Len(a) THEN <<>>
    ELSE (IF i \in Range(idx) THEN <<>> ELSE <<a[i + 1]>>) \o np_delete_from(a, idx, i + 1)

np_delete(a, idx) == np_delete_from(a, idx, 0)

-----------------------------------------------------------------------------
(* MesaData: names and the derived-field resolver.                         *)

\* Python's None where a name is expected; no column is named so (genfromtxt
\* strips '<' and '>' from names).
None == "<None>"

ModelNumber == "model_number"

is_history(names) == ModelNumber \in Range(names)

in_header(hnames, key) == key \in Range(hnames)

in_data(names, key) == key \in Range(names)

log_prefixes == <<"log_", "log", "lg_", "lg">>

ln_prefixes == <<"ln_", "ln">>

\* for prefix in prefixes: if self.in_data(prefix + key): return prefix + key
FirstPrefixed(names, prefixes, key) ==
    LET hits == {i \in DOMAIN prefixes : in_data(names, prefixes[i] \o key)}
    IN  IF hits = {} THEN None ELSE prefixes[Min(hits)] \o key

_log_version(names, key) == FirstPrefixed(names, log_prefixes, key)

_ln_version(names, key) == FirstPrefixed(names, ln_prefixes, key)

StartsWith(key, p) == Len(key) >= Len(p) /\ SubSeq(key, 1, Len(p)) = p

\* re.match of a pattern  <optional items>(.+)  on key.  heads lists the
\* strings the optional part can consume in the order the backtracking matcher
\* tries them (each optional item is greedy: present first, then absent); the
\* match is the first head that key starts with and that leaves at least one
\* character for the group (.+).  The result is the group, or None.
MatchGroup(heads, key) ==
    LET ok == {i \in DOMAIN heads : StartsWith(key, heads[i]) /\ Len(key) > Len(heads[i])}
    IN  IF ok = {} THEN None
        ELSE SubSeq(key, Len(heads[Min(ok)]) + 1, Len(key))

\* '^lo?g_?(.+)': l, o or nothing, g, _ or nothing
log_matcher(key) == MatchGroup(<<"log_", "log", "lg_", "lg">>, key)

\* '^ln_?(.+)'
ln_matcher(key) == MatchGroup(<<"ln_", "ln">>, key)

_exp10_version(names, key) ==
    LET g == log_matcher(key)
    IN  IF g # None /\ in_data(names, g) THEN g ELSE None

_exp_version(names, key) ==
    LET g == ln_matcher(key)
    IN  IF g # None /\ in_data(names, g) THEN g ELSE None

\* bool(a or b or ...) over a bool and names-or-None: a name is a non-empty
\* string, so it is true; None is false.
Truthy(x) == x # None /\ x # ""

\* As _any_version, without the natural-log column of the key.
_any_version_no_ln(names, key) ==
    \/ in_data(names, key)
    \/ Truthy(_log_version(names, key))
    \/ Truthy(_exp_version(names, key))
    \/ Truthy(_exp10_version(names, key))

\* As _any_version, without the test of _exp10_version.
_any_version_no_exp10(names, key) ==
    \/ in_data(names, key)
    \/ Truthy(_log_version(names, key))
    \/ Truthy(_ln_version(names, key))
    \/ Truthy(_exp_version(names, key))

_any_version(names, key) ==
    \/ in_data(names, key)
    \/ Truthy(_log_version(names, key))
    \/ Truthy(_ln_version(names, key))
    \/ Truthy(_exp_version(names, key))
    \/ Truthy(_exp10_version(names, key))

\* An array computed from a column: fn applied elementwise to arr.
\*   "id": the column itself   "exp10": 10 ** arr   "exp": numpy.exp(arr)
\*   "log10": numpy.log10(arr) "ln": numpy.log(arr)
Arr(fn, arr) == [fn |-> fn, arr |-> arr]

\* A header value: one number, not an array.
Scalar(x) == Arr("scalar", <<x>>)

Returned(v) == [kind |-> "ok", val |-> v]

\* an exception of class e propagates to the caller
Raised(e) == [kind |-> e]

\* As data, looking for a natural-log column before a base-10 one.
data_ln_first(names, bd, key) ==
    IF in_data(names, key) THEN Returned(Arr("id", bd.cols[key]))
    ELSE IF _ln_version(names, key) # None
        THEN Returned(Arr("exp", bd.cols[_ln_version(names, key)]))
    ELSE IF _log_version(names, key) # None
        THEN Returned(Arr("exp10", bd.cols[_log_version(names, key)]))
    ELSE IF _exp10_version(names, key) # None
        THEN Returned(Arr("log10", bd.cols[_exp10_version(names, key)]))
    ELSE IF _exp_version(names, key) # None
        THEN Returned(Arr("ln", bd.cols[_exp_version(names, key)]))
    ELSE Raised("KeyError")

data(names, bd, key) ==
    IF in_data(names, key) THEN Returned(Arr("id", bd.cols[key]))
    ELSE IF _log_version(names, key) # None
        THEN Returned(Arr("exp10", bd.cols[_log_version(names, key)]))
    ELSE IF _ln_version(names, key) # None
        THEN Returned(Arr("exp", bd.cols[_ln_version(names, key)]))
    ELSE IF _exp10_version(names, key) # None
        THEN Returned(Arr("log10", bd.cols[_exp10_version(names, key)]))
    ELSE IF _exp_version(names, key) # None
        THEN Returned(Arr("ln", bd.cols[_exp_version(names, key)]))
    ELSE Raised("KeyError")

header(hnames, hdata, key) ==
    IF ~in_header(hnames, key) THEN Raised("KeyError")
    ELSE IF key \notin DOMAIN hdata THEN Raised("KeyError")   \* the dict's own
    ELSE Returned(Scalar(hdata[key]))

\* As __getattr__, looking in the header first.
__getattr__header_first(names, bd, hnames, hdata, method_name) ==
    IF in_header(hnames, method_name) THEN header(hnames, hdata, method_name)
    ELSE IF _any_version(names, method_name) THEN data(names, bd, method_name)
    ELSE Raised("AttributeError")

__getattr__(names, bd, hnames, hdata, method_name) ==
    IF _any_version(names, method_name) THEN data(names, bd, method_name)
    ELSE IF in_header(hnames, method_name) THEN header(hnames, hdata, method_name)
    ELSE Raised("AttributeError")

-----------------------------------------------------------------------------
(* MesaData: the history filter and the model-number index.                *)

\* self.data('model_number') of a time-series table
model_number_column(names, bd) == data(names, bd, ModelNumber).val.arr

\* As to_remove_of, with > for >=: a row equal to the smallest later one stays.
to_remove_strict(v) ==
    InOrder({i \in 0..(Len(v) - 2) : v[i + 1] > Min(Range(Later(v, i)))})

\* As to_remove_of, comparing a row with the next row only.
to_remove_next_only(v) ==
    InOrder({i \in 0..(Len(v) - 2) : v[i + 1] >= v[i + 2]})

\* The loop of remove_backups over the model_number column v: the indices i in
\* range(len(v) - 1) with v[i] >= numpy.min(v[i + 1:])
to_remove_of(v) ==
    InOrder({i \in 0..(Len(v) - 2) : v[i + 1] >= Min(Range(Later(v, i)))})

\* As delete_rows, taking the first marked row only.
delete_first_marked(bd, to_remove) ==
    [ndim |-> 1, cols |-> [n \in DOMAIN bd.cols |-> np_delete(bd.cols[n], <<to_remove[1]>>)]]

\* As delete_rows, deleting from the model_number column only.
delete_from_model_number(bd, to_remove) ==
    [ndim |-> 1,
     cols |-> [n \in DOMAIN bd.cols |->
                 IF n = ModelNumber THEN np_delete(bd.cols[n], to_remove) ELSE bd.cols[n]]]

\* numpy.delete(self.bulk_data, to_remove) on the record array: the rows are
\* deleted from every column
delete_rows(bd, to_remove) ==
    [ndim |-> 1, cols |-> [n \in DOMAIN bd.cols |-> np_delete(bd.cols[n], to_remove)]]

\* remove_backups: the exception raised (or "ok"), the table left, and the
\* rows marked.  len() of a 0-d array raises TypeError.
remove_backups(names, bd) ==
    IF ~is_history(names)
        THEN [kind |-> "ok", bulk_data |-> bd, to_remove |-> <<>>]
    ELSE IF bd.ndim = 0
        THEN [kind |-> "TypeError", bulk_data |-> bd, to_remove |-> <<>>]
    ELSE LET to_remove == to_remove_of(model_number_column(names, bd))
         IN  IF Len(to_remove) = 0
                THEN [kind |-> "ok", bulk_data |-> bd, to_remove |-> to_remove]
                ELSE [kind |-> "ok", bulk_data |-> delete_rows(bd, to_remove),
                      to_remove |-> to_remove]

\* numpy.where(column == m_num)[0] on a one-dimensional column
np_where_eq(v, m_num) == InOrder({i \in 0..(Len(v) - 1) : v[i + 1] = m_num})

\* As index_of_model_number, taking the first of several matches.
index_of_model_number_first(names, bd, m_num) ==
    IF ~is_history(names) THEN {Raised("HistoryError")}
    ELSE LET index == np_where_eq(model_number_column(names, bd), m_num)
             answer == IF Len(index) = 0 THEN Raised("ModelNumberError: none")
                       ELSE Returned(index[1])
         IN  IF bd.ndim = 0 THEN {answer, Raised("ValueError")} ELSE {answer}

\* index_of_model_number: the set of possible outcomes.  On a 0-d array
\* numpy.where depends on the numpy version: it treats the scalar as a
\* one-element array (older versions) or raises ValueError (newer ones).
index_of_model_number(names, bd, m_num) ==
    IF ~is_history(names) THEN {Raised("HistoryError")}
    ELSE LET index == np_where_eq(model_number_column(names, bd), m_num)
             answer == IF Len(index) > 1 THEN Raised("ModelNumberError: more than one")
                       ELSE IF Len(index) = 0 THEN Raised("ModelNumberError: none")
                       ELSE Returned(index[1])
         IN  IF bd.ndim = 0 THEN {answer, Raised("ValueError")} ELSE {answer}

\* a[i] of an array computed from a column: the value at Python index i, x
\* being the number in the column and fn what was applied to it
item(a, i) == [fn |-> a.fn, x |-> a.arr[i + 1]]

\* data_at_model_number: self.data(key)[self.index_of_model_number(m_num)],
\* the set of possible outcomes.  The subscripted expression is evaluated
\* first, the subscript after it; a 0-d array cannot be subscripted.
data_at_model_number(names, bd, key, m_num) ==
    LET d == data(names, bd, key)
    IN  IF d.kind # "ok" THEN {d}
        ELSE {IF i.kind # "ok" THEN i
              ELSE IF bd.ndim = 0 THEN Raised("IndexError")
              ELSE Returned(item(d.val, i.val)) :
                  i \in index_of_model_number(names, bd, m_num)}

-----------------------------------------------------------------------------
(* MesaData: reading a history (.data, .log) file.                         *)

\* dict(zip(ks, vs)): pairs up to the shorter length, a later pair replacing
\* an earlier one with the same key
dict_zip(ks, vs) ==
    LET n == Min({Len(ks), Len(vs)})
    IN  [k \in {ks[i] : i \in 1..n} |-> vs[Max({i \in 1..n : ks[i] = k})]]

\* numpy.genfromtxt(file_name, skip_header = ..., names = True, dtype = None):
\* a record array with one field per column name; the result is squeezed, so
\* a file with exactly one data row gives a 0-d array.
genfromtxt_names(file) ==
    [ndim |-> IF Len(file.rows) = 1 THEN 0 ELSE 1,
     cols |-> [n \in Range(file.names) |->
                 [i \in 1..Len(file.rows) |-> file.rows[i][Pos(file.names, n)]]]]

\* As read_log_data, without its last statement.
read_log_data_unfiltered(file) ==
    [kind |-> "ok",
     bulk_data |-> genfromtxt_names(file),
     bulk_names |-> file.names,
     header_names |-> file.header_names,
     header_data |-> dict_zip(file.header_names, file.header_values)]

\* read_log_data: the attributes it assigns and the outcome of its last
\* statement, self.remove_backups()
read_log_data(file) ==
    LET rb == remove_backups(file.names, genfromtxt_names(file))
    IN  [kind |-> rb.kind,
         bulk_data |-> rb.bulk_data,
         bulk_names |-> file.names,
         header_names |-> file.header_names,
         header_data |-> dict_zip(file.header_names, file.header_values)]

\* re.compile(pattern).search(name) for the two patterns of read_data
Occurs(name, sub, from) ==
    \E i \in from..(Len(name) - Len(sub) + 1) : SubSeq(name, i, i + Len(sub) - 1) = sub

\* ".+\.mod": '.mod' with at least one character before it
model_matcher(name) == Occurs(name, ".mod", 2)

\* ".+\.(log)|(data)": '.log' with a character before it, or 'data' anywhere
log_file_matcher(name) == Occurs(name, ".log", 2) \/ Occurs(name, "data", 1)

-----------------------------------------------------------------------------
(* The files of the model.                                                 *)

HistoryPath == "LOGS/history.data"

HistoryNames == <<"model_number", "star_age">>

\* A history file with the given data rows.  Row i (from 0) is
\* <<model_number, star_age>>.
HistoryFile(rows) ==
    [header_names |-> <<"version_number", "initial_mass">>,
     header_values |-> <<11701, 1>>,
     names |-> HistoryNames,
     rows |-> rows]

\* The data rows with the model numbers ms, the star_age of a row being its
\* position in the file (from 0), which identifies the row afterwards.
RowsOf(ms) == [i \in 1..Len(ms) |-> <<ms[i], i - 1>>]

RECURSIVE SeqsUpTo(_, _)
SeqsUpTo(S, n) ==
    IF n = 0 THEN {<<>>}
    ELSE LET shorter == SeqsUpTo(S, n - 1)
         IN  shorter \cup {Append(s, x) : s \in {t \in shorter : Len(t) = n - 1}, x \in S}

\* the restart scenario: model numbers 1 2 3, a restart from 2, then 2 3 4
ScenarioModels == <<1, 2, 3, 2, 3, 4>>

ModelSeqs == SeqsUpTo(1..MaxModel, MaxRows) \cup {ScenarioModels}

-----------------------------------------------------------------------------
(* Actions on a MesaData.                                                  *)

Capped(n) == IF n > MaxCalls THEN MaxCalls ELSE n

\* The simulation writes one more row to the history file (after a restart
\* the model number may be lower than earlier ones).
AppendRow(m) ==
    /\ Len(history_file.rows) < MaxRows
    /\ history_file' = [history_file EXCEPT
                          !.rows = Append(@, <<m, Len(history_file.rows)>>)]
    /\ UNCHANGED <<mdvars, calls, ret, outside>>

\* What self.read_data() does for a file of the given name: the type of file is
\* decided from the name, and a history file is read by read_log_data.  assigns
\* tells whether the attributes were assigned before the call ended.
read_data(name, file) ==
    IF ~model_matcher(name) /\ log_file_matcher(name)
        THEN [assigns |-> TRUE] @@ read_log_data(file)
        ELSE [assigns |-> FALSE, kind |-> "UnknownFileTypeError"]

\* read_data for a file that is there or not: numpy.genfromtxt, the
\* first statement of read_log_data, fails on a missing file
read_data_if(there, name, file) ==
    IF ~model_matcher(name) /\ log_file_matcher(name) /\ ~there
        THEN [assigns |-> FALSE, kind |-> "OSError"]
        ELSE read_data(name, file)

\* MesaData(file_name): the object exists if the constructor returns
MesaDataInit(name) ==
    /\ ~constructed
    /\ ~model_matcher(name)
    /\ LET r == read_data_if(on_disk.history_file, name, history_file)
       IN  /\ ret' = [op |-> "MesaData", kind |-> r.kind]
           /\ IF r.kind = "ok"
                THEN /\ constructed' = TRUE
                     /\ file_name' = name
                     /\ bulk_data' = r.bulk_data
                     /\ bulk_names' = r.bulk_names
                     /\ header_names' = r.header_names
                     /\ header_data' = r.header_data
                     /\ calls' = 1
                ELSE UNCHANGED <<mdvars, calls>>
    /\ UNCHANGED <<history_file, outside>>

\* m.read_data() on an existing object: what was assigned before an exception
\* stays assigned
ReadData ==
    /\ constructed
    /\ ~model_matcher(file_name)
    /\ LET r == read_data_if(on_disk.history_file, file_name, history_file)
       IN  /\ ret' = [op |-> "read_data", kind |-> r.kind]
           /\ IF r.assigns
                THEN /\ bulk_data' = r.bulk_data
                     /\ bulk_names' = r.bulk_names
                     /\ header_names' = r.header_names
                     /\ header_data' = r.header_data
                     /\ calls' = 1
                ELSE UNCHANGED <<bulk_data, bulk_names, header_names, header_data, calls>>
    /\ UNCHANGED <<history_file, constructed, file_name, outside>>

\* m.remove_backups()
RemoveBackups ==
    /\ constructed
    /\ LET rb == remove_backups(bulk_names, bulk_data)
       IN  /\ bulk_data' = rb.bulk_data
           /\ ret' = [op |-> "remove_backups", kind |-> rb.kind, to_remove |-> rb.to_remove]
    /\ calls' = Capped(calls + 1)
    /\ UNCHANGED <<history_file, constructed, file_name, bulk_names, header_names,
                   header_data, outside>>

\* m.index_of_model_number(m_num)
IndexOfModelNumber(m_num) ==
    /\ constructed
    /\ \E r \in index_of_model_number(bulk_names, bulk_data, m_num) :
          ret' = [op |-> "index_of_model_number", kind |-> r.kind, res |-> r, m_num |-> m_num]
    /\ UNCHANGED <<history_file, mdvars, calls, outside>>

\* m.data_at_model_number(key, m_num)
DataAtModelNumber(key, m_num) ==
    /\ constructed
    /\ \E r \in data_at_model_number(bulk_names, bulk_data, key, m_num) :
          ret' = [op |-> "data_at_model_number", kind |-> r.kind, res |-> r,
                  key |-> key, m_num |-> m_num]
    /\ UNCHANGED <<history_file, mdvars, calls, outside>>

\* m.data(key)
Data(key) ==
    /\ constructed
    /\ ret' = [op |-> "data", key |-> key, res |-> data(bulk_names, bulk_data, key)]
    /\ UNCHANGED <<history_file, mdvars, calls, outside>>

\* m._any_version(key)
AnyVersion(key) ==
    /\ constructed
    /\ ret' = [op |-> "_any_version", key |-> key, res |-> _any_version(bulk_names, key)]
    /\ UNCHANGED <<history_file, mdvars, calls, outside>>

\* m.<method_name>, for a name that is no attribute or method of the class
GetAttr(method_name) ==
    /\ constructed
    /\ ret' = [op |-> "__getattr__", key |-> method_name,
               res |-> __getattr__(bulk_names, bulk_data, header_names, header_data,
                                   method_name)]
    /\ UNCHANGED <<history_file, mdvars, calls, outside>>

-----------------------------------------------------------------------------
(* MesaProfileIndex: the catalog of the profiles of a log directory.       *)

\* MesaProfileIndex.index_names as the class defines it
DefaultIndexNames == <<"model_numbers", "priorities", "profile_numbers">>

IndexPath == "LOGS/profiles.index"

\* the log directory with its history file and its index file in place
AllOnDisk == [log_path |-> TRUE, history_file |-> TRUE, index_file |-> TRUE]

\* no object: its constructor has not returned
NoObject == [exists |-> FALSE]

\* numpy.genfromtxt(file_name, skip_header = index_start_line - 1, dtype = None)
\* of an index file with the given data rows: two-dimensional with two rows or
\* more, one-dimensional otherwise
genfromtxt_index(rows) == [ndim |-> IF Len(rows) >= 2 THEN 2 ELSE 1, rows |-> rows]

\* a.T of a two-dimensional array: the sequence of its columns
Transpose(rows) == [c \in 1..Len(rows[1]) |-> [i \in 1..Len(rows) |-> rows[i][c]]]

\* a[numpy.argsort(a[:, 0])]: the rows ordered by their first field (rows with
\* equal first fields in file order here; numpy leaves their order open)
RECURSIVE sort_by_first(_)
sort_by_first(rows) ==
    IF rows = <<>> THEN <<>>
    ELSE LET least == Min({rows[i][1] : i \in DOMAIN rows})
             at == Min({i \in DOMAIN rows : rows[i][1] = least})
         IN  <<rows[at]>> \o sort_by_first(SubSeq(rows, 1, at - 1) \o
                                            SubSeq(rows, at + 1, Len(rows)))

\* The attributes of a MesaProfileIndex as __init__ sets them before it calls
\* read_index
new_index(file) ==
    [exists |-> TRUE,
     file_name |-> file,
     index_data |-> None,
     model_number_string |-> "",
     profile_number_string |-> "",
     profile_numbers |-> None,
     model_numbers |-> None]

\* MesaProfileIndex.data(key), index_names being the class attribute as it is
\* at the call
index_data_of(names, index_data, key) ==
    IF key \notin Range(names) THEN Raised("KeyError")
    ELSE IF key \notin DOMAIN index_data THEN Raised("KeyError")   \* the dict's own
    ELSE Returned(index_data[key])

\* read_index on the object self, statement by statement, for the class
\* attribute index_names and the data rows of the file: the outcome and the
\* object as the call leaves it.  index_names[0] fails on an empty list and
\* temp_index_data[:, 0] on an array that is not two-dimensional.  The sorted
\* table is assigned to index_data and replaced, in the next statement, by the
\* dictionary of the columns of temp_index_data.
read_index(names, rows, self) ==
    LET temp_index_data == genfromtxt_index(rows)
    IN  IF names = <<>> THEN [kind |-> "IndexError", self |-> self]
        ELSE
        LET s1 == [self EXCEPT !.model_number_string = names[1],
                               !.profile_number_string = names[Len(names)]]
        IN  IF temp_index_data.ndim < 2 THEN [kind |-> "IndexError", self |-> s1]
            ELSE
            LET s2 == [s1 EXCEPT !.index_data = sort_by_first(temp_index_data.rows)]
                s3 == [s2 EXCEPT !.index_data =
                                     dict_zip(names, Transpose(temp_index_data.rows))]
                p == index_data_of(names, s3.index_data, s3.profile_number_string)
            IN  IF p.kind # "ok" THEN [kind |-> p.kind, self |-> s3]
                ELSE
                LET s4 == [s3 EXCEPT !.profile_numbers = p.val]
                    m == index_data_of(names, s4.index_data, s4.model_number_string)
                IN  IF m.kind # "ok" THEN [kind |-> m.kind, self |-> s4]
                    ELSE [kind |-> "ok", self |-> [s4 EXCEPT !.model_numbers = m.val]]

\* have_profile_with_model_number(model_number) on the index object ix
have_profile_with_model_number(names, ix, model_number) ==
    LET d == index_data_of(names, ix.index_data, ix.model_number_string)
    IN  IF d.kind # "ok" THEN d ELSE Returned(model_number \in Range(d.val))

\* have_profile_with_profile_number(profile_number) on the index object ix
have_profile_with_profile_number(names, ix, profile_number) ==
    LET d == index_data_of(names, ix.index_data, ix.profile_number_string)
    IN  IF d.kind # "ok" THEN d ELSE Returned(profile_number \in Range(d.val))

\* As profile_with_model_number, returning the position found in place of the
\* profile number taken there.
profile_with_model_number_position(names, ix, model_number) ==
    LET have == have_profile_with_model_number(names, ix, model_number)
    IN  IF have.kind # "ok" THEN have
        ELSE IF ~have.val THEN Raised("ProfileError")
        ELSE Returned(np_where_eq(ix.index_data[ix.model_number_string], model_number)[1])

\* As profile_with_model_number, answering with the last profile number where
\* no entry has the model number.
profile_with_model_number_or_last(names, ix, model_number) ==
    LET have == have_profile_with_model_number(names, ix, model_number)
        numbers == index_data_of(names, ix.index_data, ix.profile_number_string)
    IN  IF have.kind # "ok" THEN have
        ELSE IF numbers.kind # "ok" THEN numbers
        ELSE IF ~have.val THEN Returned(numbers.val[Len(numbers.val)])
        ELSE Returned(numbers.val[np_where_eq(ix.index_data[ix.model_number_string],
                                              model_number)[1] + 1])

\* profile_with_model_number(model_number) on the index object ix:
\* numpy.take(profile numbers, indices)[0], the first match
profile_with_model_number(names, ix, model_number) ==
    LET have == have_profile_with_model_number(names, ix, model_number)
    IN  IF have.kind # "ok" THEN have
        ELSE IF ~have.val THEN Raised("ProfileError")
        ELSE LET models == index_data_of(names, ix.index_data, ix.model_number_string)
                 numbers == index_data_of(names, ix.index_data, ix.profile_number_string)
                 indices == np_where_eq(models.val, model_number)
             IN  IF numbers.kind # "ok" THEN numbers
                 ELSE Returned(numbers.val[indices[1] + 1])

-----------------------------------------------------------------------------
(* MesaLogDir: the history, the catalog and the cache of parsed profiles.  *)

Digits == <<"0", "1", "2", "3", "4", "5", "6", "7", "8", "9">>

\* str(n) of a natural number
RECURSIVE str(_)
str(n) == IF n < 10 THEN Digits[n + 1] ELSE str(n \div 10) \o Digits[(n % 10) + 1]

\* os.path.join(a, b) for a relative b
path_join(a, b) == a \o "/" \o b

\* The profile numbers that have a profile file in the log directory: the
\* simulation writes the file of a profile along with its row of the index.
ProfilesOnDisk(rows) == {rows[i][3] : i \in DOMAIN rows}

\* The file of profile p, written at the model number of its index row: the
\* model number is a header field, the table has a row per zone.
ProfileFile(rows, p) ==
    LET i == CHOOSE j \in DOMAIN rows : rows[j][3] = p
    IN  [header_names |-> <<"model_number", "num_zones">>,
         header_values |-> <<rows[i][1], 2>>,
         names |-> <<"zone", "logT">>,
         rows |-> <<<<1, p>>, <<2, p>>>>]

\* MesaData(file_name) for the file of a profile: the outcome and, if the
\* constructor returns, the new object, known from every other by id
parse_profile(rows, name, to_use, id) ==
    IF to_use \notin ProfilesOnDisk(rows) THEN [kind |-> "OSError"]
    ELSE LET r == read_data(name, ProfileFile(rows, to_use))
         IN  IF r.kind # "ok" THEN [kind |-> r.kind]
             ELSE [kind |-> "ok",
                   obj |-> [id |-> id,
                            file_name |-> name,
                            bulk_names |-> r.bulk_names,
                            bulk_data |-> r.bulk_data,
                            header_names |-> r.header_names,
                            header_data |-> r.header_data]]

\* As to_use_of, a given profile number taking precedence over the model number.
to_use_profile_first(names, ix, ld, model_number, profile_number) ==
    IF profile_number # -1 THEN Returned(profile_number)
    ELSE IF model_number # -1 THEN profile_with_model_number(names, ix, model_number)
    ELSE IF ld.profile_numbers = <<>> THEN Raised("IndexError")
    ELSE Returned(ld.profile_numbers[Len(ld.profile_numbers)])

\* The first statements of profile_data: the profile number to use, for the
\* log directory ld and its index ix.  self.profile_numbers[-1] is the last
\* element of the array that read_logs copied.
to_use_of(names, ix, ld, model_number, profile_number) ==
    IF model_number = -1
        THEN IF profile_number = -1
                THEN IF ld.profile_numbers = <<>> THEN Raised("IndexError")
                     ELSE Returned(ld.profile_numbers[Len(ld.profile_numbers)])
                ELSE Returned(profile_number)
        ELSE profile_with_model_number(names, ix, model_number)

\* read_index for an index file that is there or not: numpy.genfromtxt, its
\* first statement, fails on a missing file
read_index_if(there, names, rows, self) ==
    IF ~there THEN [kind |-> "OSError", self |-> self]
    ELSE read_index(names, rows, self)

\* As path_checks, looking for the index file before the history file.
path_checks_index_first(disk) ==
    IF ~disk.log_path THEN [kind |-> "BadPathError", path |-> "LOGS"]
    ELSE IF ~disk.index_file THEN [kind |-> "BadPathError", path |-> "profiles.index"]
    ELSE IF ~disk.history_file THEN [kind |-> "BadPathError", path |-> "history.data"]
    ELSE [kind |-> "ok"]

\* The checks of MesaLogDir.__init__ before it reads anything: the directory,
\* the history file, the index file; path is what the message of the error
\* names.
path_checks(disk) ==
    IF ~disk.log_path THEN [kind |-> "BadPathError", path |-> "LOGS"]
    ELSE IF ~disk.history_file THEN [kind |-> "BadPathError", path |-> "history.data"]
    ELSE IF ~disk.index_file THEN [kind |-> "BadPathError", path |-> "profiles.index"]
    ELSE [kind |-> "ok"]

\* read_logs: the outcome, how far it came and the files it handed to a
\* parser.  The history is parsed and assigned first (step 1), then the index
\* is parsed and assigned together with the copies of its arrays and the empty
\* cache (step 2).
read_logs(disk, hfile, names, rows) ==
    LET h == read_data_if(disk.history_file, HistoryPath, hfile)
    IN  IF h.kind # "ok" THEN [kind |-> h.kind, step |-> 0, parses |-> <<HistoryPath>>]
        ELSE LET ix == read_index_if(disk.index_file, names, rows, new_index(IndexPath))
             IN  IF ix.kind # "ok"
                   THEN [kind |-> ix.kind, step |-> 1, history |-> h,
                         parses |-> <<HistoryPath, IndexPath>>]
                   ELSE [kind |-> "ok", step |-> 2, history |-> h, profiles |-> ix.self,
                         parses |-> <<HistoryPath, IndexPath>>]

-----------------------------------------------------------------------------
(* Actions on the index file, a MesaProfileIndex and a MesaLogDir.          *)

\* The simulation saves one more profile: a row <<model_number, priority,
\* profile_number>> of the index, with a profile number not used before.
AppendIndexRow(m, priority, p) ==
    /\ Len(index_file) < MaxIndexRows
    /\ p \notin ProfilesOnDisk(index_file)
    /\ index_file' = Append(index_file, <<m, priority, p>>)
    /\ UNCHANGED <<history_file, mdvars, calls, ret, arg, scan, on_disk, index_names, profiles, logdir>>

\* The simulation is started anew and writes the index file afresh: it holds
\* the row of the one profile saved since.
RestartIndex(m, p) ==
    /\ index_file' = <<<<m, 1, p>>>>
    /\ index_file' # index_file
    /\ UNCHANGED <<history_file, mdvars, calls, ret, arg, scan, on_disk, index_names, profiles,
                   logdir>>

\* MesaProfileIndex(file_name): the object exists if the constructor returns
MesaProfileIndexInit ==
    /\ ~profiles.exists
    /\ ~logdir.exists
    /\ LET r == read_index_if(on_disk.index_file, index_names, index_file,
                              new_index(IndexPath))
       IN  /\ ret' = [op |-> "MesaProfileIndex", kind |-> r.kind]
           /\ profiles' = IF r.kind = "ok" THEN r.self ELSE profiles
    /\ UNCHANGED <<history_file, mdvars, calls, arg, scan, on_disk, index_file, index_names, logdir>>

\* index.read_index() on an existing object: what was assigned before an
\* exception stays assigned
ReadIndex ==
    /\ profiles.exists
    /\ LET r == read_index_if(on_disk.index_file, index_names, index_file, profiles)
       IN  /\ ret' = [op |-> "read_index", kind |-> r.kind]
           /\ profiles' = r.self
    /\ UNCHANGED <<history_file, mdvars, calls, arg, scan, on_disk, index_file, index_names, logdir>>

\* index.profile_with_model_number(model_number)
ProfileWithModelNumber(model_number) ==
    /\ profiles.exists
    /\ LET r == profile_with_model_number(index_names, profiles, model_number)
       IN  ret' = [op |-> "MesaProfileIndex.profile_with_model_number",
                   kind |-> r.kind, res |-> r, m_num |-> model_number]
    /\ UNCHANGED <<history_file, mdvars, calls, arg, scan, on_disk, index_file, index_names,
                   profiles, logdir>>

\* MesaProfileIndex.set_index_names(name_arr): the class attribute is
\* assigned, no object is touched
SetIndexNames(name_arr) ==
    /\ index_names' = name_arr
    /\ ret' = [op |-> "set_index_names", kind |-> "ok", res |-> name_arr]
    /\ UNCHANGED <<history_file, mdvars, calls, arg, scan, on_disk, index_file, profiles,
                   logdir>>

\* index.data(key)
IndexData(key) ==
    /\ profiles.exists
    /\ LET r == index_data_of(index_names, profiles.index_data, key)
       IN  ret' = [op |-> "MesaProfileIndex.data", kind |-> r.kind, res |-> r, key |-> key]
    /\ UNCHANGED <<history_file, mdvars, calls, arg, scan, on_disk, index_file, index_names,
                   profiles, logdir>>

\* index.have_profile_with_model_number(model_number)
HaveProfileWithModelNumber(model_number) ==
    /\ profiles.exists
    /\ LET r == have_profile_with_model_number(index_names, profiles, model_number)
       IN  ret' = [op |-> "have_profile_with_model_number", kind |-> r.kind, res |-> r,
                   m_num |-> model_number]
    /\ UNCHANGED <<history_file, mdvars, calls, arg, scan, on_disk, index_file, index_names,
                   profiles, logdir>>

\* index.have_profile_with_profile_number(profile_number)
HaveProfileWithProfileNumber(profile_number) ==
    /\ profiles.exists
    /\ LET r == have_profile_with_profile_number(index_names, profiles, profile_number)
       IN  ret' = [op |-> "have_profile_with_profile_number", kind |-> r.kind, res |-> r,
                   p_num |-> profile_number]
    /\ UNCHANGED <<history_file, mdvars, calls, arg, scan, on_disk, index_file, index_names,
                   profiles, logdir>>

\* The assignments of read_logs to the history of the log directory
AssignHistory(h) ==
    /\ constructed' = TRUE
    /\ file_name' = HistoryPath
    /\ bulk_data' = h.bulk_data
    /\ bulk_names' = h.bulk_names
    /\ header_names' = h.header_names
    /\ header_data' = h.header_data
    /\ calls' = 1

\* The log directory after the last statements of read_logs
AssignCatalog(ld, ix) ==
    [ld EXCEPT !.profile_numbers = ix.profile_numbers,
               !.model_numbers = ix.model_numbers,
               !.profile_dict = <<>>]

\* The attributes of a MesaLogDir as __init__ sets them before it calls
\* read_logs
new_logdir(memoize_profiles) ==
    [exists |-> TRUE,
     log_path |-> "LOGS",
     profile_prefix |-> "profile",
     profile_suffix |-> "data",
     memoize_profiles |-> memoize_profiles,
     profile_numbers |-> None,
     model_numbers |-> None,
     profile_dict |-> None]

\* MesaLogDir(memoize_profiles = ...): the object exists if read_logs returns
MesaLogDirInit(memoize_profiles) ==
    /\ ~logdir.exists
    /\ ~profiles.exists
    /\ ~constructed
    /\ IF path_checks(on_disk).kind # "ok"
         THEN /\ ret' = [op |-> "MesaLogDir", parses |-> <<>>] @@ path_checks(on_disk)
              /\ UNCHANGED <<mdvars, calls, profiles, logdir>>
         ELSE \E r \in {read_logs(on_disk, history_file, index_names, index_file)} :
           /\ ret' = [op |-> "MesaLogDir", kind |-> r.kind, parses |-> r.parses]
           /\ IF r.kind = "ok"
                THEN /\ AssignHistory(r.history)
                     /\ profiles' = r.profiles
                     /\ logdir' = AssignCatalog(new_logdir(memoize_profiles), r.profiles)
                ELSE UNCHANGED <<mdvars, calls, profiles, logdir>>
    /\ UNCHANGED <<history_file, arg, scan, on_disk, index_file, index_names>>

\* l.read_logs() on an existing log directory: what was assigned before an
\* exception stays assigned
ReadLogs ==
    /\ logdir.exists
    /\ \E r \in {read_logs(on_disk, history_file, index_names, index_file)} :
           /\ ret' = [op |-> "read_logs", kind |-> r.kind, parses |-> r.parses]
           /\ IF r.step >= 1 THEN AssignHistory(r.history)
                             ELSE UNCHANGED <<mdvars, calls>>
           /\ IF r.step = 2
                THEN /\ profiles' = r.profiles
                     /\ logdir' = AssignCatalog(logdir, r.profiles)
                ELSE UNCHANGED <<profiles, logdir>>
    /\ UNCHANGED <<history_file, arg, scan, on_disk, index_file, index_names>>

\* l.profile_with_model_number(m_num): the call is passed to l.profiles
LogDirProfileWithModelNumber(m_num) ==
    /\ logdir.exists
    /\ LET r == profile_with_model_number(index_names, profiles, m_num)
       IN  ret' = [op |-> "MesaLogDir.profile_with_model_number",
                   kind |-> r.kind, res |-> r, m_num |-> m_num]
    /\ UNCHANGED <<history_file, mdvars, calls, arg, scan, on_disk, index_file, index_names,
                   profiles, logdir>>

\* As in_profile_dict, looking in the cache only while memoization is on.
in_profile_dict_if_memoizing(ld, to_use) ==
    ld.memoize_profiles /\ to_use \in DOMAIN ld.profile_dict

\* "to_use in self.profile_dict": the flag memoize_profiles is not asked
in_profile_dict(ld, to_use) == to_use \in DOMAIN ld.profile_dict

\* As memoize, storing nothing.
memoize_never(ld, to_use, p) == ld

\* As memoize, storing whatever the flag says.
memoize_always(ld, to_use, p) ==
    [ld EXCEPT !.profile_dict = (to_use :> p) @@ @]

\* The last statements of profile_data before the return: the log directory
\* after "if self.memoize_profiles: self.profile_dict[to_use] = p"
memoize(ld, to_use, p) ==
    IF ld.memoize_profiles
        THEN [ld EXCEPT !.profile_dict = (to_use :> p) @@ @]
        ELSE ld

\* The ids of the profile objects that the cache or the caller (by the last
\* call) holds
HeldIds ==
    {logdir.profile_dict[k].id : k \in DOMAIN logdir.profile_dict}
        \cup (IF ret.op = "profile_data" /\ ret.kind = "ok" THEN {ret.res.id} ELSE {})

\* the id of an object made now: one that no held object has
FreshId == Min({n \in 1..(MaxProfile + 2) : n \notin HeldIds})

\* l.profile_data(model_number, profile_number); -1 stands for an argument
\* that is not given
ProfileData(model_number, profile_number) ==
    /\ logdir.exists
    /\ \E t \in {to_use_of(index_names, profiles, logdir, model_number, profile_number)} :
       LET call == [op |-> "profile_data", model_number |-> model_number,
                    profile_number |-> profile_number]
           name == path_join(logdir.log_path,
                             logdir.profile_prefix \o str(t.val) \o "."
                                 \o logdir.profile_suffix)
       IN  IF t.kind # "ok"
             THEN /\ ret' = call @@ [kind |-> t.kind, parsed |-> FALSE]
                  /\ UNCHANGED logdir
           ELSE IF in_profile_dict(logdir, t.val)
             THEN /\ ret' = call @@ [kind |-> "ok", parsed |-> FALSE, to_use |-> t.val,
                                     res |-> logdir.profile_dict[t.val]]
                  /\ UNCHANGED logdir
           ELSE \E p \in {parse_profile(index_file, name, t.val, FreshId)} :
                  IF p.kind # "ok"
                    THEN /\ ret' = call @@ [kind |-> p.kind, parsed |-> TRUE,
                                            to_use |-> t.val, file_name |-> name]
                         /\ UNCHANGED logdir
                    ELSE /\ ret' = call @@ [kind |-> "ok", parsed |-> TRUE,
                                            to_use |-> t.val, file_name |-> name,
                                            res |-> p.obj]
                         /\ logdir' = memoize(logdir, t.val, p.obj)
    /\ UNCHANGED <<history_file, mdvars, calls, arg, scan, on_disk, index_file, index_names, profiles>>

\* l.memoize_profiles = b: the attribute is set from outside
SetMemoizeProfiles(b) ==
    /\ logdir.exists
    /\ logdir.memoize_profiles # b
    /\ logdir' = [logdir EXCEPT !.memoize_profiles = b]
    /\ UNCHANGED <<history_file, mdvars, calls, arg, scan, on_disk, index_file, index_names, profiles,
                   ret>>

-----------------------------------------------------------------------------
(* MesaLogDir.select_models.                                               *)

\* The functions f that a caller passes to select_models:
\*   always_true   lambda *args: True
\*   always_false  lambda *args: False
\*   at_least_one  lambda x: x >= 1
Predicates == {"always_true", "always_false", "at_least_one"}

\* v >= 1 for a value taken from an array computed from a column of
\* non-negative integers: 10 ** x >= 1 and e ** x >= 1 for every x >= 0,
\* log10(x) >= 1 from x = 10 on and ln(x) >= 1 from x = 3 on (log of 0 is -inf)
at_least_one(v) ==
    CASE v.fn = "id" -> v.x >= 1
      [] v.fn = "exp10" -> v.x >= 0
      [] v.fn = "exp" -> v.x >= 0
      [] v.fn = "log10" -> v.x >= 10
      [] v.fn = "ln" -> v.x >= 3

\* f(*args): a call with the wrong number of arguments raises TypeError
call(f, args) ==
    CASE f = "always_true" -> Returned(TRUE)
      [] f = "always_false" -> Returned(FALSE)
      [] f = "at_least_one" -> IF Len(args) # 1 THEN Raised("TypeError")
                               ELSE Returned(at_least_one(args[1]))

\* As first_invalid_key, looking at the first key only.
first_invalid_key_first_only(names, keys) ==
    IF keys # <<>> /\ ~in_data(names, keys[1]) THEN keys[1] ELSE None

\* As first_invalid_key, taking every key that the resolver resolves.
first_invalid_key_resolver(names, keys) ==
    LET bad == {k \in DOMAIN keys : ~_any_version(names, keys[k])}
    IN  IF bad = {} THEN None ELSE keys[Min(bad)]

\* The first loop of select_models: the first key with
\* not self.history.in_data(key), None if there is none
first_invalid_key(names, keys) ==
    LET bad == {k \in DOMAIN keys : ~in_data(names, keys[k])}
    IN  IF bad = {} THEN None ELSE keys[Min(bad)]

\* select_models(f, *keys) on the log directory ld whose history is the table
\* (names, bd): the set of possible outcomes, each with the number of calls
\* of data_at_model_number and of f that were made.  Lookup n (from 1) is for
\* the model number at position (n - 1) \div K of ld.model_numbers and the key
\* at position (n - 1) % K of the K keys.  A lookup has one outcome, or (on a
\* 0-d table) several that all raise, so the first lookup that can raise ends
\* the call.  f raises on its first call or on none.
select_models(names, bd, ld, f, keys) ==
    IF first_invalid_key(names, keys) # None
        THEN {[kind |-> "KeyError", key |-> first_invalid_key(names, keys),
               lookups |-> 0, evaluations |-> 0]}
    ELSE
    LET mns == ld.model_numbers
        K == Len(keys)
        N == Len(mns) * K
        lookup(n) == data_at_model_number(names, bd, keys[((n - 1) % K) + 1],
                                          mns[((n - 1) \div K) + 1])
        raising == {n \in 1..N : \E o \in lookup(n) : o.kind # "ok"}
    IN  IF raising # {}
          THEN {[kind |-> o.kind, lookups |-> Min(raising), evaluations |-> 0] :
                    o \in lookup(Min(raising))}
        ELSE
        LET inputs == [j \in DOMAIN mns |->
                         [k \in DOMAIN keys |->
                            (CHOOSE o \in lookup((j - 1) * K + k) : TRUE).val]]
            results == [j \in DOMAIN mns |-> call(f, inputs[j])]
        IN  IF mns # <<>> /\ results[1].kind # "ok"
              THEN {[kind |-> results[1].kind, lookups |-> N, evaluations |-> 1]}
              ELSE LET mask == InOrder({j \in DOMAIN mns : results[j].val})
                   IN  {[kind |-> "ok", lookups |-> N, evaluations |-> Len(mns),
                         res |-> [i \in DOMAIN mask |-> mns[mask[i]]]]}

\* l.select_models(f, *keys)
SelectModels(f, keys) ==
    /\ logdir.exists
    /\ \E r \in select_models(bulk_names, bulk_data, logdir, f, keys) :
          ret' = [op |-> "select_models", f |-> f, keys |-> keys] @@ r
    /\ UNCHANGED <<history_file, mdvars, calls, arg, scan, on_disk, index_file, index_names,
                   profiles, logdir>>

-----------------------------------------------------------------------------
(* MesaData: reading a model (.mod) file.                                  *)

\* A text file is the sequence of its lines and a line the sequence of its
\* tokens, line.split(); a line of white space only has none.  lines[i] of
\* Python, for the Python index i:
line_at(lines, i) == lines[i + 1]

\* blank_line_matcher.match(line) is not None, for the pattern '^\s*$'
blank_line_matcher(line) == line = <<>>

IsDigits(s) == s # "" /\ \A k \in 1..Len(s) : SubSeq(s, k, k) \in Range(Digits)

\* the number that a string of digits denotes
RECURSIVE int_of(_)
int_of(s) ==
    IF s = "" THEN 0
    ELSE int_of(SubSeq(s, 1, Len(s) - 1)) * 10
            + ((CHOOSE k \in 1..10 : Digits[k] = SubSeq(s, Len(s), Len(s))) - 1)

\* re.sub('(d|D)' + sign, 'E' + sign, s) for the sign '+' or '-': the
\* result from character k of s on
RECURSIVE re_sub_from(_, _, _)
re_sub_from(s, k, sign) ==
    IF k > Len(s) THEN ""
    ELSE IF k < Len(s) /\ SubSeq(s, k, k + 1) \in {"d" \o sign, "D" \o sign}
        THEN ("E" \o sign) \o re_sub_from(s, k + 2, sign)
    ELSE SubSeq(s, k, k) \o re_sub_from(s, k + 1, sign)

re_sub_exponent(s, sign) == re_sub_from(s, 1, sign)

\* As pythonize_number, leaving the string as it is.
pythonize_number_untouched(num_string) == num_string

\* pythonize_number: D+, d+ become E+, then D-, d- become E-
pythonize_number(num_string) ==
    re_sub_exponent(re_sub_exponent(num_string, "+"), "-")

\* the values of Python that eval gives here: an int, a float (mant * 10 **
\* exp10) and a str
PyInt(n) == [int |-> n]

PyFloat(m, e) == [mant |-> m, exp10 |-> e]

PyStr(x) == [str |-> x]

\* the position of the first 'E' of s, 0 if there is none
FirstE(s) ==
    IF \E k \in 1..Len(s) : SubSeq(s, k, k) = "E"
        THEN Min({k \in 1..Len(s) : SubSeq(s, k, k) = "E"})
        ELSE 0

\* eval(s) for one token s, in a scope that binds no name occurring in the
\* file: a decimal integer without a leading zero, a float  <digits>E+<digits>
\* or <digits>E-<digits>, a string in single quotes; a name raises NameError
\* and anything else SyntaxError
eval(s) ==
    LET e == FirstE(s)
        first == SubSeq(s, 1, 1)
    IN  IF IsDigits(s)
          THEN IF Len(s) > 1 /\ first = "0" /\ int_of(s) # 0
                 THEN Raised("SyntaxError")
                 ELSE Returned(PyInt(int_of(s)))
        ELSE IF /\ e >= 2
                /\ Len(s) >= e + 2
                /\ IsDigits(SubSeq(s, 1, e - 1))
                /\ SubSeq(s, e + 1, e + 1) \in {"+", "-"}
                /\ IsDigits(SubSeq(s, e + 2, Len(s)))
          THEN Returned(PyFloat(int_of(SubSeq(s, 1, e - 1)),
                                IF SubSeq(s, e + 1, e + 1) = "+"
                                    THEN int_of(SubSeq(s, e + 2, Len(s)))
                                    ELSE 0 - int_of(SubSeq(s, e + 2, Len(s)))))
        ELSE IF Len(s) >= 2 /\ first = "'" /\ SubSeq(s, Len(s), Len(s)) = "'"
          THEN Returned(PyStr(SubSeq(s, 2, Len(s) - 1)))
        ELSE IF s # "" /\ first \notin Range(Digits)
                /\ first \notin {"!", "'", "#", "+", "-", "."}
          THEN Raised("NameError")
        ELSE Raised("SyntaxError")

\* eval(pythonize_number(datum)) for one token, the string converted once
eval_number(datum) == CHOOSE r \in {eval(v) : v \in {pythonize_number(datum)}} : TRUE

\* [eval(pythonize_number(datum)) for datum in tokens]: the values, or the
\* exception of the first token that raises one
eval_all(tokens) ==
    LET vs == [k \in DOMAIN tokens |-> eval_number(tokens[k])]
        bad == {k \in DOMAIN tokens : vs[k].kind # "ok"}
    IN  IF bad # {} THEN vs[Min(bad)]
        ELSE Returned([k \in DOMAIN tokens |-> vs[k].val])

\* advance without i += 1: the line looked at is the line of the last test
advance_in_place(sc) ==
    IF sc.i + 1 >= Len(sc.lines) THEN Raised("IndexError")
    ELSE Returned([sc EXCEPT !.found_blank_line =
                                 blank_line_matcher(line_at(sc.lines, sc.i))])

\* One more line: i += 1 and found_blank_line = (the match of lines[i]); an
\* index past the last line raises IndexError.
advance(sc) ==
    IF sc.i + 1 >= Len(sc.lines) THEN Raised("IndexError")
    ELSE Returned([sc EXCEPT !.i = sc.i + 1,
                             !.found_blank_line =
                                 blank_line_matcher(line_at(sc.lines, sc.i + 1))])

\* One line of the header: the pair it holds, or the exception of the
\* unpacking (not exactly two tokens) or of eval
header_pair(tokens) ==
    IF Len(tokens) # 2 THEN Raised("ValueError")
    ELSE CHOOSE r \in {IF v.kind # "ok" THEN v
                        ELSE Returned([name |-> tokens[1], val |-> v.val]) :
                            v \in {eval_number(tokens[2])}} : TRUE

\* numpy.array(temp_data).T and the loop that assigns temp_data[i] to
\* bulk_data[bulk_names[i]]: the outcomes, each with the columns assigned.
\* Rows of one length give a two-dimensional array, and a name past its last
\* column raises IndexError.  Rows of several lengths give a one-dimensional
\* array of lists or raise ValueError, as the numpy version has it.
columns_of(names, temp_data) ==
    IF \A r \in DOMAIN temp_data : Len(temp_data[r]) = Len(temp_data[1])
        THEN LET T == Transpose(temp_data)
             IN  {[kind |-> IF Len(names) > Len(T) THEN "IndexError" ELSE "ok",
                   cols |-> dict_zip(names, T)]}
        ELSE {[kind |-> "ValueError", cols |-> <<>>],
              [kind |-> IF Len(names) > Len(temp_data) THEN "IndexError" ELSE "ok",
               cols |-> dict_zip(names, temp_data)]}

-----------------------------------------------------------------------------
(* Actions of read_model_data, one per iteration of each of its loops.     *)

ModelPath == "LOGS/star.mod"

\* the attributes of an object that no caller holds
NoMesaData ==
    /\ constructed' = FALSE
    /\ file_name' = None
    /\ bulk_names' = <<>>
    /\ bulk_data' = [ndim |-> 1, cols |-> <<>>]
    /\ header_names' = <<>>
    /\ header_data' = <<>>

\* An exception e leaves read_model_data: out of a constructor no object
\* comes to be, out of read_data the object keeps what was assigned so far
\* (given as the conjunction assigned).
RaiseInScan(e, assigned) ==
    /\ ret' = [op |-> scan.op, kind |-> e, pc |-> scan.pc]
    /\ scan' = NoScan
    /\ IF scan.op = "MesaData" THEN NoMesaData ELSE assigned
    /\ UNCHANGED <<history_file, arg, calls, on_disk, index_file, index_names, profiles,
                   logdir>>

\* the call goes on in the loop pc with the scanning state sc
GoOn(pc, sc) ==
    /\ scan' = [sc EXCEPT !.pc = pc]
    /\ UNCHANGED <<history_file, arg, calls, on_disk, index_file, index_names, profiles,
                   logdir, ret>>

\* f.readlines() and the statements before the first loop
begin_scan(op, lines) ==
    [pc |-> "preamble", op |-> op, lines |-> lines, i |-> 0,
     found_blank_line |-> FALSE, temp_data |-> <<>>]

\* MesaData(name) for a model file: __init__ and read_data up to the first
\* loop of read_model_data
StartModel(name) ==
    /\ scan.pc = "idle"
    /\ ~constructed
    /\ model_matcher(name)
    /\ IF ~on_disk.history_file
         THEN /\ ret' = [op |-> "MesaData", kind |-> "OSError", pc |-> "open"]
              /\ UNCHANGED <<mdvars, scan>>
         ELSE /\ ret' = [op |-> "MesaData", kind |-> "running"]
              /\ scan' = begin_scan("MesaData", history_file.lines)
              /\ file_name' = name
              /\ UNCHANGED <<constructed, bulk_names, bulk_data, header_names, header_data>>
    /\ UNCHANGED <<history_file, arg, calls, on_disk, index_file, index_names, profiles,
                   logdir>>

\* m.read_data() on an object made from a model file
ReloadModel ==
    /\ scan.pc = "idle"
    /\ constructed
    /\ model_matcher(file_name)
    /\ IF ~on_disk.history_file
         THEN /\ ret' = [op |-> "read_data", kind |-> "OSError", pc |-> "open"]
              /\ UNCHANGED scan
         ELSE /\ ret' = [op |-> "read_data", kind |-> "running"]
              /\ scan' = begin_scan("read_data", history_file.lines)
    /\ UNCHANGED <<history_file, mdvars, arg, calls, on_disk, index_file, index_names,
                   profiles, logdir>>

\* while not found_blank_line (first loop): the lines before the first blank
\* line, looked at from lines[1] on
ScanPreamble ==
    /\ scan.pc = "preamble"
    /\ \E a \in {advance(scan)} :
          IF a.kind # "ok" THEN RaiseInScan(a.kind, UNCHANGED mdvars)
          ELSE /\ GoOn(IF a.val.found_blank_line THEN "blanks1" ELSE "preamble", a.val)
               /\ UNCHANGED mdvars

\* while found_blank_line (first time): the blank lines before the header;
\* leaving the loop, header_names and header_data are made empty
SkipBlanks1 ==
    /\ scan.pc = "blanks1"
    /\ \E a \in {advance(scan)} :
          IF a.kind # "ok" THEN RaiseInScan(a.kind, UNCHANGED mdvars)
          ELSE IF a.val.found_blank_line
            THEN GoOn("blanks1", a.val) /\ UNCHANGED mdvars
          ELSE /\ GoOn("header", a.val)
               /\ header_names' = <<>>
               /\ header_data' = <<>>
               /\ UNCHANGED <<constructed, file_name, bulk_names, bulk_data>>

\* while not found_blank_line (second time): one header line
ReadHeaderLine ==
    /\ scan.pc = "header"
    /\ \E h \in {header_pair(line_at(scan.lines, scan.i))} :
          IF h.kind # "ok" THEN RaiseInScan(h.kind, UNCHANGED mdvars)
          ELSE LET put == /\ header_data' =
                                [n \in DOMAIN header_data \cup {h.val.name} |->
                                    IF n = h.val.name THEN h.val.val ELSE header_data[n]]
                          /\ header_names' = Append(header_names, h.val.name)
                          /\ UNCHANGED <<constructed, file_name, bulk_names, bulk_data>>
                   a == advance(scan)
               IN  IF a.kind # "ok" THEN RaiseInScan(a.kind, put)
                   ELSE /\ GoOn(IF a.val.found_blank_line THEN "blanks2" ELSE "header", a.val)
                        /\ put

\* while found_blank_line (second time): the blank lines before the column
\* names; leaving the loop, the names are taken and the data made empty
SkipBlanks2 ==
    /\ scan.pc = "blanks2"
    /\ \E a \in {advance(scan)} :
          IF a.kind # "ok" THEN RaiseInScan(a.kind, UNCHANGED mdvars)
          ELSE IF a.val.found_blank_line
            THEN GoOn("blanks2", a.val) /\ UNCHANGED mdvars
          ELSE /\ GoOn("rows", [a.val EXCEPT !.i = a.val.i + 1,
                                             !.found_blank_line = FALSE,
                                             !.temp_data = <<>>])
               /\ bulk_names' = <<"zone">> \o line_at(a.val.lines, a.val.i)
               /\ bulk_data' = [ndim |-> 1, cols |-> <<>>]
               /\ UNCHANGED <<constructed, file_name, header_names, header_data>>

\* while not found_blank_line (third time): one data row; leaving the loop,
\* the columns are assigned and the call returns
ReadRow ==
    /\ scan.pc = "rows"
    /\ IF scan.i >= Len(scan.lines) THEN RaiseInScan("IndexError", UNCHANGED mdvars)
       ELSE \E row \in {eval_all(line_at(scan.lines, scan.i))} :
          IF row.kind # "ok" THEN RaiseInScan(row.kind, UNCHANGED mdvars)
          ELSE \E a \in {advance([scan EXCEPT !.temp_data = Append(@, row.val)])} :
            IF a.kind # "ok" THEN RaiseInScan(a.kind, UNCHANGED mdvars)
            ELSE IF ~a.val.found_blank_line
              THEN GoOn("rows", a.val) /\ UNCHANGED mdvars
            ELSE \E c \in columns_of(bulk_names, a.val.temp_data) :
                   LET put == /\ bulk_data' = [ndim |-> 1, cols |-> c.cols]
                              /\ UNCHANGED <<file_name, bulk_names, header_names,
                                             header_data>>
                   IN  IF c.kind # "ok"
                         THEN RaiseInScan(c.kind, put /\ UNCHANGED constructed)
                         ELSE /\ ret' = [op |-> scan.op, kind |-> "ok", pc |-> "done"]
                              /\ scan' = NoScan
                              /\ constructed' = TRUE
                              /\ put
                              /\ UNCHANGED <<history_file, arg, calls, on_disk, index_file,
                                             index_names, profiles, logdir>>

-----------------------------------------------------------------------------
(* MesaData: a history file as lines of text.                              *)

\* the class attributes that say where the names are (lines count from 1)
header_names_line == 2

bulk_names_line == 6

\* the token that starts a comment
Hash == "#"

HasComment(line) == \E k \in DOMAIN line : line[k] = Hash

FirstHash(line) == Min({k \in DOMAIN line : line[k] = Hash})

\* split_line of genfromtxt: the tokens before the first comment token
split_line(line) ==
    IF HasComment(line) THEN SubSeq(line, 1, FirstHash(line) - 1) ELSE line

\* The tokens of the line of names: genfromtxt(names = True) takes, of a line
\* with a comment token, what follows the first one (further ones removed).
names_of_line(line) ==
    IF HasComment(line)
        THEN LET at == InOrder({k \in (FirstHash(line) + 1)..Len(line) : line[k] # Hash})
             IN  [k \in DOMAIN at |-> line[at[k]]]
        ELSE line

\* NameValidator of genfromtxt on names of letters, digits and '_': a name
\* seen cnt times before gets the suffix _cnt
validate_names(names) ==
    [k \in DOMAIN names |->
        LET cnt == Cardinality({j \in 1..(k - 1) : names[j] = names[k]})
        IN  IF cnt > 0 THEN names[k] \o "_" \o str(cnt) ELSE names[k]]

\* dtype = None: a column whose tokens are all integers is a column of
\* integers, any other column keeps its tokens as strings
convert_column(tokens) ==
    IF \A k \in DOMAIN tokens : IsDigits(tokens[k])
        THEN [k \in DOMAIN tokens |-> int_of(tokens[k])]
        ELSE tokens

\* numpy.genfromtxt(file_name, skip_header = skip, names = True, dtype =
\* None) for a file with a line of names after the skipped lines: the first
\* line after them that holds a value gives the names, each later line that
\* holds a value a row; a row of another width than the names raises
\* ValueError.
genfromtxt_text(lines, skip) ==
    LET first == Min({j \in (skip + 1)..Len(lines) : names_of_line(lines[j]) # <<>>})
        names == validate_names(names_of_line(lines[first]))
        at == InOrder({j \in (first + 1)..Len(lines) : split_line(lines[j]) # <<>>})
        rows == [r \in DOMAIN at |-> split_line(lines[at[r]])]
    IN  IF \E r \in DOMAIN rows : Len(rows[r]) # Len(names) THEN Raised("ValueError")
        ELSE [kind |-> "ok", names |-> names,
              rows |-> Transpose([c \in DOMAIN names |->
                                    convert_column([r \in DOMAIN rows |-> rows[r][c]])]),
              nrows |-> Len(rows)]

\* [eval(datum) for datum in line.split()] of the header values
eval_header(tokens) ==
    LET vs == [k \in DOMAIN tokens |-> eval(tokens[k])]
        bad == {k \in DOMAIN tokens : vs[k].kind # "ok"}
    IN  IF bad # {} THEN vs[Min(bad)]
        ELSE Returned([k \in DOMAIN tokens |-> vs[k].val])

\* the lines of a file that hold no comment token
without_comments(lines) ==
    LET at == InOrder({k \in DOMAIN lines : ~HasComment(lines[k])})
    IN  [k \in DOMAIN at |-> lines[at[k]]]

\* As read_log_data, on the file without its comment lines.
read_log_skipping_comments(lines, old) ==
    LET clean == without_comments(lines)
        g == genfromtxt_text(clean, bulk_names_line - 1)
        bd == genfromtxt_names([names |-> g.names,
                                rows |-> IF g.nrows = 0 THEN <<>> ELSE g.rows])
        hv == eval_header(clean[header_names_line + 1])
    IN  IF g.kind # "ok" THEN [kind |-> g.kind, assigned |-> {}]
        ELSE IF hv.kind # "ok"
          THEN [kind |-> hv.kind,
                assigned |-> {"bulk_data", "bulk_names", "header_names"},
                bulk_data |-> bd, bulk_names |-> g.names,
                header_names |-> clean[header_names_line]]
        ELSE [kind |-> "ok",
              assigned |-> {"bulk_data", "bulk_names", "header_names", "header_data"},
              bulk_data |-> remove_backups(g.names, bd).bulk_data,
              bulk_names |-> g.names,
              header_names |-> clean[header_names_line],
              header_data |-> dict_zip(clean[header_names_line], hv.val)]

\* read_log_data on the lines of a file, for an object whose header_names
\* is old (None in a constructor): the outcome, the attributes as the call
\* leaves them and which of them it assigned.  genfromtxt reads names and
\* rows, skipping comment lines and blank lines; the loop over the file
\* takes header names and header values by their line numbers alone.
read_log_text(lines, old) ==
    \* line 153-155
    LET g == genfromtxt_text(lines, bulk_names_line - 1)
    IN  IF g.kind # "ok" THEN [kind |-> g.kind, assigned |-> {}]
        ELSE
        LET file == [names |-> g.names,
                     rows |-> IF g.nrows = 0 THEN <<>> ELSE g.rows]
            bd == genfromtxt_names(file)
            \* lines 156-164
            hn == IF Len(lines) >= header_names_line
                    THEN lines[header_names_line] ELSE old
            hv == IF Len(lines) >= header_names_line + 1
                    THEN eval_header(lines[header_names_line + 1]) ELSE Returned(<<>>)
            sofar == [bulk_data |-> bd, bulk_names |-> g.names, header_names |-> hn]
        IN  IF hv.kind # "ok"
              THEN [kind |-> hv.kind,
                    assigned |-> {"bulk_data", "bulk_names", "header_names"}] @@ sofar
            \* line 165
            ELSE IF hn = None
              THEN [kind |-> "TypeError", assigned |-> {"bulk_data", "bulk_names"}] @@ sofar
            \* line 166
            ELSE LET rb == remove_backups(g.names, bd)
                 IN  [kind |-> rb.kind,
                      assigned |-> {"bulk_data", "bulk_names", "header_names",
                                    "header_data"},
                      bulk_data |-> rb.bulk_data,
                      bulk_names |-> g.names,
                      header_names |-> hn,
                      header_data |-> dict_zip(hn, hv.val)]

\* The attributes after a call with the outcome r
AssignText(r) ==
    /\ bulk_data' = IF "bulk_data" \in r.assigned THEN r.bulk_data ELSE bulk_data
    /\ bulk_names' = IF "bulk_names" \in r.assigned THEN r.bulk_names ELSE bulk_names
    /\ header_names' = IF "header_names" \in r.assigned THEN r.header_names ELSE header_names
    /\ header_data' = IF "header_data" \in r.assigned THEN r.header_data ELSE header_data

\* MesaData(name) for a history file given by its lines: the object exists
\* if the constructor returns
MesaDataText(name) ==
    /\ ~constructed
    /\ ~model_matcher(name) /\ log_file_matcher(name)
    /\ \E r \in {read_log_text(history_file.lines, None)} :
          /\ ret' = [op |-> "MesaData", kind |-> r.kind]
          /\ IF r.kind = "ok"
               THEN /\ constructed' = TRUE
                    /\ file_name' = name
                    /\ AssignText(r)
                    /\ calls' = 1
               ELSE UNCHANGED <<mdvars, calls>>
    /\ UNCHANGED <<history_file, outside>>

\* m.read_data() on an object made from a history file given by its lines
ReadDataText ==
    /\ constructed
    /\ ~model_matcher(file_name) /\ log_file_matcher(file_name)
    /\ \E r \in {read_log_text(history_file.lines, header_names)} :
          /\ ret' = [op |-> "read_data", kind |-> r.kind]
          /\ AssignText(r)
          /\ calls' = IF "bulk_data" \in r.assigned THEN 1 ELSE calls
    /\ UNCHANGED <<history_file, constructed, file_name, outside>>

CommentLine == <<Hash, "note">>

\* The file is written anew with one line more: a comment line before the
\* line at position at (from 1), or after the last line.
InsertComment(at) ==
    /\ Len(history_file.lines) < MaxTextLines
    /\ ~\E k \in DOMAIN history_file.lines : HasComment(history_file.lines[k])
    /\ at \in 1..(Len(history_file.lines) + 1)
    /\ history_file' = [lines |-> SubSeq(history_file.lines, 1, at - 1)
                                    \o <<CommentLine>>
                                    \o SubSeq(history_file.lines, at,
                                              Len(history_file.lines))]
    /\ UNCHANGED <<mdvars, calls, ret, outside>>

-----------------------------------------------------------------------------
(* Specifications.                                                         *)

NoCall == [op |-> "none", kind |-> "ok"]

\* no index file read, no MesaProfileIndex and no MesaLogDir made
NoLogDir ==
    /\ on_disk = AllOnDisk
    /\ index_file = <<>>
    /\ index_names = DefaultIndexNames
    /\ profiles = NoObject
    /\ logdir = NoObject

FileNames == {HistoryPath, "LOGS/notes.txt"}

ModelNumbers == 1..(MaxModel + 1)

\* Spec: the life of one MesaData over a history file that the simulation
\* keeps writing.
Init ==
    /\ history_file = HistoryFile(<<>>)
    /\ constructed = FALSE
    /\ file_name = None
    /\ bulk_names = <<>>
    /\ bulk_data = [ndim |-> 1, cols |-> <<>>]
    /\ header_names = <<>>
    /\ header_data = <<>>
    /\ arg = None
    /\ scan = NoScan
    /\ calls = 0
    /\ NoLogDir
    /\ ret = NoCall

Next ==
    \/ \E m \in 1..MaxModel : AppendRow(m)
    \/ \E name \in FileNames : MesaDataInit(name)
    \/ ReadData
    \/ RemoveBackups

Spec == Init /\ [][Next]_vars

\* SpecFilter: remove_backups as a function of the table.  The table starts as
\* read_log_data has it just before its call of remove_backups: the rows of the
\* file, unfiltered.
InitFilter ==
    /\ \E ms \in ModelSeqs : history_file = HistoryFile(RowsOf(ms))
    /\ constructed = TRUE
    /\ file_name = HistoryPath
    /\ bulk_names = history_file.names
    /\ bulk_data = genfromtxt_names(history_file)
    /\ header_names = history_file.header_names
    /\ header_data = dict_zip(history_file.header_names, history_file.header_values)
    /\ arg = None
    /\ scan = NoScan
    /\ calls = 0
    /\ NoLogDir
    /\ ret = NoCall

NextFilter ==
    \/ RemoveBackups
    \/ \E m \in ModelNumbers : IndexOfModelNumber(m)

SpecFilter == InitFilter /\ [][NextFilter]_vars

\* SpecBackups: remove_backups on the unfiltered table of a history file and
\* on the table of a file of another kind, which has no model_number column.
ProfileNames == <<"zone", "mass">>

InitBackups ==
    /\ \E ms \in ModelSeqs, names \in {HistoryNames, ProfileNames} :
          history_file = [HistoryFile(RowsOf(ms)) EXCEPT !.names = names]
    /\ constructed = TRUE
    /\ file_name = HistoryPath
    /\ bulk_names = history_file.names
    /\ bulk_data = genfromtxt_names(history_file)
    /\ header_names = history_file.header_names
    /\ header_data = dict_zip(history_file.header_names, history_file.header_values)
    /\ arg = None
    /\ scan = NoScan
    /\ calls = 0
    /\ NoLogDir
    /\ ret = NoCall

NextBackups ==
    \/ RemoveBackups
    \/ \E m \in ModelNumbers : IndexOfModelNumber(m)

SpecBackups == InitBackups /\ [][NextBackups]_vars

\* SpecResolver: the lookups of one key in one table, for every table of up to
\* MaxCols columns named from ColumnPool and every key of Keys.
Chars == {"l", "o", "g", "n", "_", "L"}

RECURSIVE Strings(_)
Strings(n) ==
    IF n = 0 THEN {""} ELSE {k \o c : k \in Strings(n - 1), c \in Chars}

ColumnPool == <<"L", "log_L", "logL", "lg_L", "lgL", "ln_L", "lnL", "_", "_L", "g">>

\* every string of 1..MaxKeyLen characters, every pool name behind every
\* prefix the resolver knows, and a header name
Keys ==
    UNION {Strings(n) : n \in 1..MaxKeyLen}
        \cup {h \o ColumnPool[i] : h \in {"", "log_", "log", "lg_", "lg", "ln_", "ln"},
                                   i \in DOMAIN ColumnPool}
        \cup {"version_number"}

\* the column of the table named n: two values that tell the columns apart
ColumnOf(n) == <<Pos(ColumnPool, n), Pos(ColumnPool, n) + Len(ColumnPool)>>

ResolverHeader == <<"version_number", "L", "o", "lnL">>

InitResolver ==
    /\ history_file = HistoryFile(<<>>)
    /\ constructed = TRUE
    /\ file_name = "LOGS/profile1.data"
    /\ \E S \in SUBSET (DOMAIN ColumnPool) :
          /\ Cardinality(S) \in 1..MaxCols
          /\ bulk_names = [k \in 1..Cardinality(S) |-> ColumnPool[InOrder(S)[k]]]
    /\ bulk_data = [ndim |-> 1, cols |-> [n \in Range(bulk_names) |-> ColumnOf(n)]]
    /\ header_names = ResolverHeader
    /\ header_data = dict_zip(ResolverHeader, <<11701, 100, 200, 300>>)
    /\ arg \in Keys
    /\ scan = NoScan
    /\ calls = 0
    /\ NoLogDir
    /\ ret = NoCall

NextResolver ==
    \/ Data(arg)
    \/ AnyVersion(arg)
    \/ GetAttr(arg)

SpecResolver == InitResolver /\ [][NextResolver]_vars

\* SpecLogDir: a log directory whose index file the simulation keeps writing,
\* read through a MesaProfileIndex of its own or through a MesaLogDir whose
\* profile_data is called with neither argument.  The index file holds a row
\* from the first saved profile on.
IndexModels == 1..MaxModel

ProfileNumbers == 1..MaxProfile

Priorities == 1..MaxPriority

InitLogDir ==
    /\ history_file = HistoryFile(RowsOf(<<1, 2, 3>>))
    /\ constructed = FALSE
    /\ file_name = None
    /\ bulk_names = <<>>
    /\ bulk_data = [ndim |-> 1, cols |-> <<>>]
    /\ header_names = <<>>
    /\ header_data = <<>>
    /\ arg = None
    /\ scan = NoScan
    /\ calls = 0
    /\ on_disk = AllOnDisk
    /\ \E m \in IndexModels, priority \in Priorities, p \in ProfileNumbers :
          index_file = <<<<m, priority, p>>>>
    /\ index_names = DefaultIndexNames
    /\ profiles = NoObject
    /\ logdir = NoObject
    /\ ret = NoCall

NextLogDir ==
    \/ \E m \in IndexModels, priority \in Priorities, p \in ProfileNumbers :
          AppendIndexRow(m, priority, p)
    \/ MesaProfileIndexInit
    \/ ReadIndex
    \/ \E m \in ModelNumbers : ProfileWithModelNumber(m)
    \/ \E memoize_profiles \in BOOLEAN : MesaLogDirInit(memoize_profiles)
    \/ ReadLogs
    \/ \E m \in ModelNumbers : LogDirProfileWithModelNumber(m)
    \/ ProfileData(-1, -1)

SpecLogDir == InitLogDir /\ [][NextLogDir]_vars

\* SpecNames: a MesaProfileIndex over an index file of two rows, asked for
\* its columns and its entries while the class attribute index_names is set
\* anew and the file is read again.
IndexNameArrays ==
    {DefaultIndexNames,
     <<"profile_numbers", "priorities", "model_numbers">>,
     <<"model", "priority", "profile">>}

IndexColumnKeys == {"model_numbers", "profile_numbers", "priorities", "model", "zone"}

InitNames ==
    /\ history_file = HistoryFile(RowsOf(<<1, 2, 3>>))
    /\ constructed = FALSE
    /\ file_name = None
    /\ bulk_names = <<>>
    /\ bulk_data = [ndim |-> 1, cols |-> <<>>]
    /\ header_names = <<>>
    /\ header_data = <<>>
    /\ arg = None
    /\ scan = NoScan
    /\ calls = 0
    /\ on_disk = AllOnDisk
    /\ index_file \in {<<<<m1, 1, p1>>, <<m2, 1, p2>>>> :
                          m1 \in IndexModels, m2 \in IndexModels,
                          p1 \in ProfileNumbers, p2 \in ProfileNumbers}
    /\ index_names = DefaultIndexNames
    /\ profiles = NoObject
    /\ logdir = NoObject
    /\ ret = NoCall

NextNames ==
    \/ MesaProfileIndexInit
    \/ ReadIndex
    \/ \E name_arr \in IndexNameArrays : SetIndexNames(name_arr)
    \/ \E key \in IndexColumnKeys : IndexData(key)
    \/ \E m \in ModelNumbers : HaveProfileWithModelNumber(m)
    \/ \E p \in ProfileNumbers : HaveProfileWithProfileNumber(p)
    \/ \E m \in ModelNumbers : ProfileWithModelNumber(m)

SpecNames == InitNames /\ [][NextNames]_vars

\* SpecReread: a log directory read again and again while the simulation
\* writes rows to the history file and, after a restart, a new index file.
InitReread ==
    /\ history_file = HistoryFile(RowsOf(<<1, 2, 3>>))
    /\ constructed = FALSE
    /\ file_name = None
    /\ bulk_names = <<>>
    /\ bulk_data = [ndim |-> 1, cols |-> <<>>]
    /\ header_names = <<>>
    /\ header_data = <<>>
    /\ arg = None
    /\ scan = NoScan
    /\ calls = 0
    /\ on_disk = AllOnDisk
    /\ index_file = <<<<1, 1, 1>>, <<2, 1, 2>>>>
    /\ index_names = DefaultIndexNames
    /\ profiles = NoObject
    /\ logdir = NoObject
    /\ ret = NoCall

NextReread ==
    \/ \E m \in 1..MaxModel : AppendRow(m)
    \/ \E m \in IndexModels, p \in ProfileNumbers : RestartIndex(m, p)
    \/ MesaLogDirInit(TRUE)
    \/ ReadLogs
    \/ ProfileData(-1, -1)

SpecReread == InitReread /\ [][NextReread]_vars

\* SpecCache: the profiles of a log directory whose index file has two rows,
\* asked for by model number, by profile number, by both or by neither, with
\* memoization switched on and off and the logs re-read.
CacheIndexFiles ==
    {f \in {<<<<m1, 1, p1>>, <<m2, 1, p2>>>> :
                m1 \in IndexModels, m2 \in IndexModels,
                p1 \in ProfileNumbers, p2 \in ProfileNumbers} :
        f[1][3] # f[2][3]}

InitCache ==
    /\ history_file = HistoryFile(RowsOf(<<1, 2, 3>>))
    /\ constructed = FALSE
    /\ file_name = None
    /\ bulk_names = <<>>
    /\ bulk_data = [ndim |-> 1, cols |-> <<>>]
    /\ header_names = <<>>
    /\ header_data = <<>>
    /\ arg = None
    /\ scan = NoScan
    /\ calls = 0
    /\ on_disk = AllOnDisk
    /\ index_file \in CacheIndexFiles
    /\ index_names = DefaultIndexNames
    /\ profiles = NoObject
    /\ logdir = NoObject
    /\ ret = NoCall

NextCache ==
    \/ \E memoize_profiles \in BOOLEAN : MesaLogDirInit(memoize_profiles)
    \/ \E b \in BOOLEAN : SetMemoizeProfiles(b)
    \/ ReadLogs
    \/ \E m \in ModelNumbers : LogDirProfileWithModelNumber(m)
    \/ \E m \in {-1} \cup IndexModels, p \in {-1} \cup ProfileNumbers : ProfileData(m, p)

SpecCache == InitCache /\ [][NextCache]_vars

\* SpecPaths: a MesaLogDir or a MesaProfileIndex made where the log directory,
\* its history file or its index file may be missing (a file is missing if
\* its directory is).
DiskStates ==
    {d \in [log_path : BOOLEAN, history_file : BOOLEAN, index_file : BOOLEAN] :
        ~d.log_path => (~d.history_file /\ ~d.index_file)}

InitPaths ==
    /\ history_file = HistoryFile(RowsOf(<<1, 2, 3>>))
    /\ constructed = FALSE
    /\ file_name = None
    /\ bulk_names = <<>>
    /\ bulk_data = [ndim |-> 1, cols |-> <<>>]
    /\ header_names = <<>>
    /\ header_data = <<>>
    /\ arg = None
    /\ scan = NoScan
    /\ calls = 0
    /\ on_disk \in DiskStates
    /\ index_file \in CacheIndexFiles
    /\ index_names = DefaultIndexNames
    /\ profiles = NoObject
    /\ logdir = NoObject
    /\ ret = NoCall

NextPaths ==
    \/ \E memoize_profiles \in BOOLEAN : MesaLogDirInit(memoize_profiles)
    \/ MesaProfileIndexInit
    \/ ReadLogs
    \/ ReadIndex

SpecPaths == InitPaths /\ [][NextPaths]_vars

\* SpecSelect: select_models on a log directory whose history has two or
\* three rows written (a restart may have lowered the model number) and a
\* second column star_age or log_L, and whose index file has two rows.  The
\* second column of a history row holds the position of the row in the file.
SelectHistoryNames == {HistoryNames, <<"model_number", "log_L">>}

SelectModelSeqs == {ms \in SeqsUpTo(1..MaxModel, MaxSelectRows) : Len(ms) >= 2}

SelectIndexFiles == {<<<<m1, 1, 1>>, <<m2, 1, 2>>>> : m1 \in IndexModels, m2 \in IndexModels}

SelectKeys ==
    {<<>>, <<"star_age">>, <<"log_L">>, <<"L">>, <<"model_number", "zone">>,
     <<"model_number", "log_L">>}

InitSelect ==
    /\ \E names \in SelectHistoryNames, ms \in SelectModelSeqs :
          history_file = [HistoryFile(RowsOf(ms)) EXCEPT !.names = names]
    /\ constructed = FALSE
    /\ file_name = None
    /\ bulk_names = <<>>
    /\ bulk_data = [ndim |-> 1, cols |-> <<>>]
    /\ header_names = <<>>
    /\ header_data = <<>>
    /\ arg = None
    /\ scan = NoScan
    /\ calls = 0
    /\ on_disk = AllOnDisk
    /\ index_file \in SelectIndexFiles
    /\ index_names = DefaultIndexNames
    /\ profiles = NoObject
    /\ logdir = NoObject
    /\ ret = NoCall

NextSelect ==
    \/ MesaLogDirInit(TRUE)
    \/ ProfileData(-1, -1)
    \/ \E f \in Predicates, keys \in SelectKeys : SelectModels(f, keys)

SpecSelect == InitSelect /\ [][NextSelect]_vars

\* SpecIndex: index_of_model_number and data_at_model_number on one table,
\* a history (column model_number) or a table without that column, as
\* read_log_data has it just before its call of remove_backups and as
\* remove_backups leaves it.
IndexTableNames == {HistoryNames, <<"zone", "star_age">>}

IndexKeys == {"star_age", "log_star_age", "mass"}

InitIndex ==
    /\ \E names \in IndexTableNames, ms \in ModelSeqs :
          history_file = [HistoryFile(RowsOf(ms)) EXCEPT !.names = names]
    /\ constructed = TRUE
    /\ file_name = HistoryPath
    /\ bulk_names = history_file.names
    /\ bulk_data = genfromtxt_names(history_file)
    /\ header_names = history_file.header_names
    /\ header_data = dict_zip(history_file.header_names, history_file.header_values)
    /\ arg = None
    /\ scan = NoScan
    /\ calls = 0
    /\ NoLogDir
    /\ ret = NoCall

NextIndex ==
    \/ RemoveBackups
    \/ \E m \in ModelNumbers : IndexOfModelNumber(m)
    \/ \E key \in IndexKeys, m \in ModelNumbers : DataAtModelNumber(key, m)

SpecIndex == InitIndex /\ [][NextIndex]_vars

\* SpecModel: MesaData made from a model file and re-read, for files put
\* together from a preamble, a run of blank lines, a header block, a run of
\* blank lines, a line of column names, a block of data rows and an end, each
\* of which may be missing.
PreambleLine == <<"!", "note">>

\* header line k of a file
HeaderLine(k) == <<"n" \o str(k), str(k) \o "D+01">>

\* header line k with a value that is no number
OddHeaderLine(k) == <<"n" \o str(k), "abc">>

ColumnNames == <<"lnd", "lnT">>

\* data row z (zones count from 1) of a file
DataRow(z) == <<str(z), str(z + 4), str(z) \o "d-00">>

Repeat(x, n) == [k \in 1..n |-> x]

Preambles == {Repeat(PreambleLine, n) : n \in 0..MaxRun}

BlankRuns == {Repeat(<<>>, n) : n \in 0..MaxRun}

\* the header blocks of up to MaxRun lines, at most one of them odd
HeaderBlocks ==
    {[k \in 1..n |-> IF k = odd THEN OddHeaderLine(k) ELSE HeaderLine(k)] :
        n \in 0..MaxRun, odd \in 0..MaxRun}

NameLines == {<<>>, <<ColumnNames>>}

DataBlocks == {[z \in 1..n |-> DataRow(z)] : n \in 0..MaxRun}

Ends == {<<>>, <<<<>>>>, <<<<>>, PreambleLine>>}

ModFiles ==
    {pre \o b1 \o hdr \o b2 \o nm \o dat \o end :
        pre \in Preambles, b1 \in BlankRuns, hdr \in HeaderBlocks, b2 \in BlankRuns,
        nm \in NameLines, dat \in DataBlocks, end \in Ends}

InitModel ==
    /\ history_file \in {[lines |-> f] : f \in ModFiles}
    /\ constructed = FALSE
    /\ file_name = None
    /\ bulk_names = <<>>
    /\ bulk_data = [ndim |-> 1, cols |-> <<>>]
    /\ header_names = <<>>
    /\ header_data = <<>>
    /\ arg = None
    /\ scan = NoScan
    /\ calls = 0
    /\ NoLogDir
    /\ ret = NoCall

NextModel ==
    \/ StartModel(ModelPath)
    \/ ReloadModel
    \/ ScanPreamble
    \/ SkipBlanks1
    \/ ReadHeaderLine
    \/ SkipBlanks2
    \/ ReadRow

SpecModel == InitModel /\ [][NextModel]_vars

\* a step of a running read_model_data
ScanStep == ScanPreamble \/ SkipBlanks1 \/ ReadHeaderLine \/ SkipBlanks2 \/ ReadRow

\* a call that has begun goes on until it returns or raises
SpecModelFair == SpecModel /\ WF_vars(ScanStep)

\* SpecText: MesaData made from a history file and re-read, the file being
\* given by its lines.  A file is laid out as MESA writes it (numbers of the
\* header columns, header names, header values, a blank line, numbers of the
\* columns, column names, data rows) or as the docstring of MesaData says
\* (header names, header values, a blank line, column names, data rows), and
\* may get one comment line.
TextHeaderNames == <<"version_number", "initial_mass">>

TextHeaderValues == <<"11701", "1">>

ColumnNumbers == <<"1", "2">>

\* the data rows of a file with the model numbers ms, the star_age of a row
\* being its position among them (from 0)
TextRows(ms) == [k \in DOMAIN ms |-> <<str(ms[k]), str(k - 1)>>]

WrittenLayout(ms) ==
    <<ColumnNumbers, TextHeaderNames, TextHeaderValues, <<>>, ColumnNumbers, HistoryNames>>
        \o TextRows(ms)

DocumentedLayout(ms) ==
    <<TextHeaderNames, TextHeaderValues, <<>>, HistoryNames>> \o TextRows(ms)

TextModelSeqs == {ms \in SeqsUpTo(1..MaxModel, MaxTextRows) : Len(ms) >= 2}

TextFiles == {WrittenLayout(ms) : ms \in TextModelSeqs}
                \cup {DocumentedLayout(ms) : ms \in TextModelSeqs}

InitText ==
    /\ history_file \in {[lines |-> f] : f \in TextFiles}
    /\ constructed = FALSE
    /\ file_name = None
    /\ bulk_names = <<>>
    /\ bulk_data = [ndim |-> 1, cols |-> <<>>]
    /\ header_names = <<>>
    /\ header_data = <<>>
    /\ arg = None
    /\ scan = NoScan
    /\ calls = 0
    /\ NoLogDir
    /\ ret = NoCall

NextText ==
    \/ MesaDataText(HistoryPath)
    \/ ReadDataText
    \/ \E at \in 1..MaxTextLines : InsertComment(at)

SpecText == InitText /\ [][NextText]_vars

-----------------------------------------------------------------------------
(* The history filter (remove_backups).                                    *)

\* the model_number column of the file, in file order
FileModels == [i \in 1..Len(history_file.rows) |-> history_file.rows[i][1]]

\* the star_age column of the table: the file positions (from 0) of its rows
TableRows == bulk_data.cols["star_age"]

TableModels == bulk_data.cols[ModelNumber]

\* the rows the filter is to keep: the last one, and each one strictly below
\* every later row of the original
KeptRows(v) ==
    {i \in 0..(Len(v) - 1) :
        i = Len(v) - 1 \/ \A j \in (i + 1)..(Len(v) - 1) : v[i + 1] < v[j + 1]}

Ascending(s) == \A i, j \in DOMAIN s : i < j => s[i] < s[j]

\* C1: once remove_backups has run on the table read from a file, the table
\* holds exactly the file's rows that are last or strictly below every later
\* row, in file order and with their own model numbers; the rows 1 2 3 2 3 4
\* leave the rows 0, 3, 4, 5 with model numbers 1 2 3 4.
C1_KeepsExactlyUnsuperseded ==
    calls >= 1 =>
        /\ Range(TableRows) = KeptRows(FileModels)
        /\ Ascending(TableRows)
        /\ Len(TableModels) = Len(TableRows)
        /\ \A k \in DOMAIN TableRows : TableModels[k] = FileModels[TableRows[k] + 1]
        /\ FileModels = ScenarioModels =>
              TableRows = <<0, 3, 4, 5>> /\ TableModels = <<1, 2, 3, 4>>

C1_Witness ==
    /\ calls >= 1
    /\ FileModels = ScenarioModels
    /\ ret.op = "remove_backups"
    /\ ret.to_remove = <<1, 2>>
    /\ Len(TableRows) = 4

\* C2: a remove_backups call on a table on which remove_backups has run before
\* marks no row and leaves the table as it is.
C2_SecondRunRemovesNothing ==
    [][(calls >= 1 /\ ret'.op = "remove_backups")
          => (bulk_data' = bulk_data /\ ret'.to_remove = <<>>)]_vars

C2_Witness ==
    /\ calls >= 2
    /\ ret.op = "remove_backups"
    /\ ret.to_remove = <<>>
    /\ Len(TableRows) + 2 <= Len(FileModels)

\* C3: once remove_backups has run, the model_number column increases strictly
\* from row to row, no model number occurs twice, and index_of_model_number
\* never reports more than one match.
C3_StrictlyIncreasingAfterFilter ==
    (calls >= 1 /\ is_history(bulk_names)) =>
        /\ Ascending(TableModels)
        /\ \A m \in ModelNumbers : Cardinality({i \in DOMAIN TableModels : TableModels[i] = m}) <= 1
        /\ ret.op = "index_of_model_number" => ret.kind # "ModelNumberError: more than one"

C3_Witness ==
    /\ calls >= 1
    /\ ret.op = "index_of_model_number"
    /\ ret.kind = "ok"
    /\ Cardinality({i \in DOMAIN FileModels : FileModels[i] = ret.m_num}) >= 2
    /\ TableModels[ret.res.val + 1] = ret.m_num

-----------------------------------------------------------------------------
(* The derived-field resolver.                                             *)

HasColumn(n) == n \in Range(bulk_names)

Column(n) == bulk_data.cols[n]

\* the first name of the sequence that is a column (there is one)
FirstColumn(cands) == cands[Min({i \in DOMAIN cands : HasColumn(cands[i])})]

AnyColumn(cands) == \E i \in DOMAIN cands : HasColumn(cands[i])

LogNames(key) == <<"log_" \o key, "log" \o key, "lg_" \o key, "lg" \o key>>

LnNames(key) == <<"ln_" \o key, "ln" \o key>>

\* What the pattern  ^<head>_?(.+)  captures from rest, the part of the key
\* behind <head>: nothing if rest is empty; rest without its leading '_' if
\* more follows the '_'; rest itself otherwise.
Captured(rest) ==
    IF rest = "" THEN None
    ELSE IF Head(rest) = "_" /\ Len(rest) > 1 THEN Tail(rest)
    ELSE rest

\* X where key matches ^lo?g_?(X), else None
LogCapture(key) ==
    IF StartsWith(key, "log") THEN Captured(SubSeq(key, 4, Len(key)))
    ELSE IF StartsWith(key, "lg") THEN Captured(SubSeq(key, 3, Len(key)))
    ELSE None

\* X where key matches ^ln_?(X), else None
LnCapture(key) ==
    IF StartsWith(key, "ln") THEN Captured(SubSeq(key, 3, Len(key))) ELSE None

\* the five stages of data(key), in order
Resolved(key) ==
    IF HasColumn(key) THEN Returned(Arr("id", Column(key)))
    ELSE IF AnyColumn(LogNames(key))
        THEN Returned(Arr("exp10", Column(FirstColumn(LogNames(key)))))
    ELSE IF AnyColumn(LnNames(key))
        THEN Returned(Arr("exp", Column(FirstColumn(LnNames(key)))))
    ELSE IF LogCapture(key) # None /\ HasColumn(LogCapture(key))
        THEN Returned(Arr("log10", Column(LogCapture(key))))
    ELSE IF LnCapture(key) # None /\ HasColumn(LnCapture(key))
        THEN Returned(Arr("ln", Column(LnCapture(key))))
    ELSE Raised("KeyError")

\* C5: data(key) is the literal column key; else 10 ** the first column among
\* log_key, logkey, lg_key, lgkey; else e ** the first column among ln_key,
\* lnkey; else log10 of column X if key matches ^lo?g_?(X) and X is a column;
\* else ln of column X if key matches ^ln_?(X) and X is a column; else a
\* KeyError.  With log_L and no L, data('L') is 10 ** log_L; with ln_L and no
\* L (and no earlier stage applying), it is e ** ln_L; with L and no log_L
\* (and no earlier stage applying), data('log_L') is log10 of L.
C5_DataResolutionOrder ==
    ret.op = "data" =>
        /\ ret.res = Resolved(ret.key)
        /\ (ret.key = "L" /\ HasColumn("log_L") /\ ~HasColumn("L"))
              => ret.res = Returned(Arr("exp10", Column("log_L")))
        /\ (ret.key = "L" /\ HasColumn("ln_L") /\ ~HasColumn("L") /\ ~AnyColumn(LogNames("L")))
              => ret.res = Returned(Arr("exp", Column("ln_L")))
        /\ (ret.key = "log_L" /\ HasColumn("L") /\ ~HasColumn("log_L")
                /\ ~AnyColumn(LogNames("log_L")) /\ ~AnyColumn(LnNames("log_L")))
              => ret.res = Returned(Arr("log10", Column("L")))

C5_Witness ==
    /\ ret.op = "data"
    /\ ret.key = "L"
    /\ HasColumn("log_L")
    /\ HasColumn("ln_L")
    /\ ret.res = Returned(Arr("exp10", Column("log_L")))

\* the name left of key behind the longest prefix matching ^<head>_?
Stripped(key, head) ==
    IF StartsWith(key, head \o "_") THEN SubSeq(key, Len(head) + 2, Len(key))
    ELSE SubSeq(key, Len(head) + 1, Len(key))

\* C6 as stated: _any_version(key) is true exactly when key is a column, or
\* one of log_key, logkey, lg_key, lgkey, ln_key, lnkey is a column, or key
\* begins with a prefix matching ^log_? or ^ln_? and the name left behind that
\* prefix is a column.
C6_HasAsStated ==
    ret.op = "_any_version" =>
        ret.res = ( \/ HasColumn(ret.key)
                    \/ AnyColumn(LogNames(ret.key))
                    \/ AnyColumn(LnNames(ret.key))
                    \/ StartsWith(ret.key, "log") /\ HasColumn(Stripped(ret.key, "log"))
                    \/ StartsWith(ret.key, "ln") /\ HasColumn(Stripped(ret.key, "ln")) )

\* C6, amended: _any_version(key) is true exactly when key is a column, or one
\* of log_key, logkey, lg_key, lgkey, ln_key, lnkey is a column, or key matches
\* ^lo?g_?(X) or ^ln_?(X) and the captured X is a column.
C6_HasExactly ==
    ret.op = "_any_version" =>
        ret.res = ( \/ HasColumn(ret.key)
                    \/ AnyColumn(LogNames(ret.key))
                    \/ AnyColumn(LnNames(ret.key))
                    \/ LogCapture(ret.key) # None /\ HasColumn(LogCapture(ret.key))
                    \/ LnCapture(ret.key) # None /\ HasColumn(LnCapture(ret.key)) )

C6_Witness ==
    /\ ret.op = "_any_version"
    /\ ret.key = "lg_L"
    /\ bulk_names = <<"L">>
    /\ ret.res = TRUE

\* C7: attribute access returns data(name) whenever data(name) yields a column
\* (also when name is a header field); else header(name) if name is a header
\* field; else it raises AttributeError.
C7_AttributeStages ==
    ret.op = "__getattr__" =>
        IF Resolved(ret.key).kind = "ok" THEN ret.res = Resolved(ret.key)
        ELSE IF ret.key \in Range(header_names) THEN ret.res = Returned(Scalar(header_data[ret.key]))
        ELSE ret.res = Raised("AttributeError")

C7_Witness ==
    /\ ret.op = "__getattr__"
    /\ ret.key = "L"
    /\ ret.key \in Range(header_names)
    /\ ~HasColumn("L")
    /\ ret.res = Returned(Arr("exp10", Column("log_L")))

-----------------------------------------------------------------------------
(* The catalog of profiles and the default profile.                        *)

ReadOps == {"MesaProfileIndex", "read_index", "MesaLogDir", "read_logs"}

LookupOps == {"MesaProfileIndex.profile_with_model_number",
              "MesaLogDir.profile_with_model_number"}

\* the model numbers and the profile numbers of the rows of the index file
FileModelNumbers == [i \in DOMAIN index_file |-> index_file[i][1]]

FileProfileNumbers == [i \in DOMAIN index_file |-> index_file[i][3]]

NonDecreasing(s) == \A i, j \in DOMAIN s : i < j => s[i] <= s[j]

Unique(s) == \A i, j \in DOMAIN s : s[i] = s[j] => i = j

\* entry i of the catalog the index object holds
CatalogEntry(i) ==
    <<profiles.index_data["model_numbers"][i], profiles.index_data["priorities"][i],
      profiles.index_data["profile_numbers"][i]>>

\* The index object holds what a parse of the file as it is now gives: the
\* file has not grown since the object last read it.
CatalogFresh ==
    /\ profiles.exists
    /\ Len(profiles.model_numbers) = Len(index_file)

\* C8: after read_index (at construction or on a re-read, of the index itself
\* or by a log directory) the catalog is sorted ascending by model number for
\* any row order of the file: model_numbers is non-decreasing, and entry i of
\* the catalog (model_numbers[i], priorities[i], profile_numbers[i]) is a row
\* of the file, the catalog having as many entries as the file has rows.
C8_SortedAfterReadIndex ==
    (ret.op \in ReadOps /\ ret.kind = "ok") =>
        /\ NonDecreasing(profiles.model_numbers)
        /\ Len(profiles.model_numbers) = Len(index_file)
        /\ \A i \in DOMAIN profiles.model_numbers :
              /\ CatalogEntry(i) \in Range(index_file)
              /\ profiles.model_numbers[i] = CatalogEntry(i)[1]
              /\ profiles.profile_numbers[i] = CatalogEntry(i)[3]

\* C9: for every row (m, priority, p) of the index file, the model numbers of
\* the file being unique, profile_with_model_number(m) on a catalog freshly
\* parsed from the file returns p, called on the MesaProfileIndex or through
\* the MesaLogDir.
C9_ProfileOfModel ==
    (ret.op \in LookupOps /\ CatalogFresh /\ Unique(FileModelNumbers)) =>
        \A i \in DOMAIN index_file :
            index_file[i][1] = ret.m_num => ret.res = Returned(index_file[i][3])

\* a catalog whose file is not in ascending order, asked through the log
\* directory for the profile of its smallest model
C9_Witness ==
    /\ ret.op = "MesaLogDir.profile_with_model_number"
    /\ CatalogFresh
    /\ FileModelNumbers = <<3, 1, 2>>
    /\ FileProfileNumbers = <<2, 3, 1>>
    /\ ret.m_num = 1
    /\ ret.res = Returned(3)

\* The catalog of the log directory is the one its index object holds.
CopiesInStep ==
    /\ logdir.profile_numbers = profiles.profile_numbers
    /\ logdir.model_numbers = profiles.model_numbers

\* C10: profile_data() with neither argument resolves to the profile number of
\* the catalog entry with the largest model number, for any row order of the
\* index file.
C10_DefaultIsLargestModel ==
    (/\ ret.op = "profile_data"
     /\ ret.model_number = -1
     /\ ret.profile_number = -1
     /\ ret.kind = "ok"
     /\ CopiesInStep) =>
        \E i \in DOMAIN logdir.model_numbers :
            /\ logdir.model_numbers[i] = Max(Range(logdir.model_numbers))
            /\ logdir.profile_numbers[i] = ret.to_use

-----------------------------------------------------------------------------
(* The profiles of a log directory and their cache.                         *)

\* the decimal numerals of the profile numbers of the model
Numeral(n) == <<"1", "2", "3", "4", "5", "6", "7", "8", "9">>[n]

\* the last call was profile_data
ProfileDataCalled == ret.op = "profile_data"

\* C11: in profile_data a given model_number decides the profile number, which
\* is profile_with_model_number(model_number) whatever profile_number is (the
\* call failing as that lookup fails); a profile_number given alone is used as
\* it is, without a lookup in the catalog; and the file read is
\* log_path/prefix + number + '.' + suffix.
C11_ResolutionOfArguments ==
    ProfileDataCalled =>
        /\ ret.model_number # -1 =>
              LET looked_up == profile_with_model_number(index_names, profiles,
                                                         ret.model_number)
              IN  IF looked_up.kind = "ok"
                    THEN ret.kind # "ProfileError" /\ ret.to_use = looked_up.val
                    ELSE ret.kind = looked_up.kind /\ ~ret.parsed
        /\ (ret.model_number = -1 /\ ret.profile_number # -1) =>
              ret.kind # "ProfileError" /\ ret.to_use = ret.profile_number
        /\ ret.parsed =>
              ret.file_name = "LOGS/profile" \o Numeral(ret.to_use) \o ".data"

\* both arguments given, the profile number not that of the model, and the
\* file of the model's profile read
C11_Witness ==
    /\ ProfileDataCalled
    /\ ret.kind = "ok"
    /\ ret.parsed
    /\ ret.model_number = 2
    /\ ret.profile_number = 3
    /\ ret.to_use = 1
    /\ ret.file_name = "LOGS/profile1.data"

\* a step that is a call of profile_data (a call that changes nothing, not
\* even ret, is a stuttering step)
ProfileDataStep == ret'.op = "profile_data" /\ ret' # ret

\* the cache of the log directory
Cache == logdir.profile_dict

\* C12: with memoization on, two calls of profile_data with no read_logs
\* between them that resolve to the same profile number return the same
\* object, however the number was reached, and the second parses no file.
\* Stated by way of the cache, which carries an object from one call to the
\* next: a call that returns an object leaves it in the cache under its
\* number; an entry stays as it is until read_logs; and a call that resolves
\* to a number in the cache returns the entry and parses nothing.
C12_MemoizedProfileIsReturned ==
    [][logdir.exists =>
        /\ (ProfileDataStep /\ logdir.memoize_profiles /\ ret'.kind = "ok") =>
              /\ ret'.to_use \in DOMAIN logdir'.profile_dict
              /\ logdir'.profile_dict[ret'.to_use] = ret'.res
              /\ ret'.to_use \in DOMAIN Cache =>
                    ret'.res = Cache[ret'.to_use] /\ ~ret'.parsed
        /\ ret'.op # "read_logs" =>
              \A k \in DOMAIN Cache :
                  k \in DOMAIN logdir'.profile_dict /\ logdir'.profile_dict[k] = Cache[k]
      ]_vars

\* a profile asked for by its model number and returned from the cache, where
\* an earlier call had put it
C12_Witness ==
    /\ ProfileDataCalled
    /\ logdir.memoize_profiles
    /\ ret.kind = "ok"
    /\ ret.model_number # -1
    /\ ret.profile_number = -1
    /\ ~ret.parsed
    /\ ret.res = Cache[ret.to_use]

\* a call of profile_data made while memoization is off that returns an object
UnmemoizedCall ==
    /\ logdir.exists
    /\ ProfileDataStep
    /\ ~logdir.memoize_profiles
    /\ ret'.kind = "ok"

\* the object returned is a new one: not one of the cache and not the one the
\* call before returned
ReturnsNewObject ==
    /\ \A k \in DOMAIN Cache : Cache[k].id # ret'.res.id
    /\ (ret.op = "profile_data" /\ ret.kind = "ok") => ret.res.id # ret'.res.id

\* C13 as stated: whenever memoize_profiles is false at a call of profile_data,
\* the call parses the file anew and returns a new object that is not stored,
\* also for a number that was cached while memoization was on.
C13_AlwaysParsesAnew ==
    [][UnmemoizedCall =>
          /\ ret'.parsed
          /\ ReturnsNewObject
          /\ logdir' = logdir
      ]_vars

\* C13: a call of profile_data made while memoize_profiles is false stores
\* nothing; for a number that is not in the cache it parses the file anew and
\* returns a new object, so that two successive calls return two objects; for
\* a number cached while memoization was on (and not cleared by read_logs
\* since) it returns the cached object and parses nothing.
C13_ParsesAnewUnlessCached ==
    [][UnmemoizedCall =>
          /\ logdir' = logdir
          /\ IF ret'.to_use \in DOMAIN Cache
               THEN ret'.res = Cache[ret'.to_use] /\ ~ret'.parsed
               ELSE ret'.parsed /\ ReturnsNewObject
      ]_vars

\* memoization off, and a profile cached earlier returned from the cache
C13_Witness ==
    /\ ProfileDataCalled
    /\ ~logdir.memoize_profiles
    /\ ret.kind = "ok"
    /\ ~ret.parsed
    /\ ret.to_use \in DOMAIN Cache
    /\ ret.res = Cache[ret.to_use]

\* C14: over any sequence of profile_data calls, changes of memoize_profiles
\* and read_logs calls, the cache starts empty; a call of profile_data keeps
\* every entry as it is and adds one only while memoization is on; an entry
\* goes only by read_logs, which leaves the cache empty.
C14_CacheGrowsUntilReadLogs ==
    [][/\ (~logdir.exists /\ logdir'.exists) => logdir'.profile_dict = <<>>
       /\ logdir.exists =>
            /\ ProfileDataStep =>
                  /\ \A k \in DOMAIN Cache :
                        /\ k \in DOMAIN logdir'.profile_dict
                        /\ logdir'.profile_dict[k] = Cache[k]
                  /\ DOMAIN logdir'.profile_dict # DOMAIN Cache =>
                        logdir.memoize_profiles
            /\ (\E k \in DOMAIN Cache : k \notin DOMAIN logdir'.profile_dict) =>
                  ret'.op = "read_logs"
            /\ (ret'.op = "read_logs" /\ ret'.kind = "ok") =>
                  logdir'.profile_dict = <<>>
      ]_vars

\* memoization switched off with a profile in the cache, and another profile
\* parsed since, which the cache has not taken
C14_Witness ==
    /\ ProfileDataCalled
    /\ ~logdir.memoize_profiles
    /\ ret.kind = "ok"
    /\ ret.parsed
    /\ Cardinality(DOMAIN Cache) = 1
    /\ ret.to_use \notin DOMAIN Cache

-----------------------------------------------------------------------------
(* The construction of a log directory.                                     *)

SomethingMissing == ~on_disk.log_path \/ ~on_disk.history_file \/ ~on_disk.index_file

\* the first of the directory, the history file and the index file that is
\* missing
FirstMissing ==
    IF ~on_disk.log_path THEN "LOGS"
    ELSE IF ~on_disk.history_file THEN "history.data"
    ELSE "profiles.index"

\* C15: MesaLogDir(...) fails with BadPathError, before any file is parsed,
\* whenever the log directory, the history file in it or the index file in it
\* is missing; the three are looked for in that order (the error names the
\* first that is missing), no object comes to be, and with all three in place
\* no BadPathError is raised.
C15_BadPathBeforeAnyParse ==
    ret.op = "MesaLogDir" =>
        IF SomethingMissing
            THEN /\ ret.kind = "BadPathError"
                 /\ ret.path = FirstMissing
                 /\ ret.parses = <<>>
                 /\ ~logdir.exists
                 /\ ~profiles.exists
                 /\ ~constructed
            ELSE ret.kind # "BadPathError" /\ ret.parses # <<>>

\* the directory is there, the history file and the index file are not: the
\* history file is the one reported
C15_Witness ==
    /\ ret.op = "MesaLogDir"
    /\ on_disk.log_path
    /\ ~on_disk.history_file
    /\ ~on_disk.index_file
    /\ ret.kind = "BadPathError"
    /\ ret.path = "history.data"

-----------------------------------------------------------------------------
(* The selection of models (select_models).                                *)

SelectCalled == ret.op = "select_models"

\* every key of the call is a column of the history
KeysPresent == \A k \in DOMAIN ret.keys : in_data(bulk_names, ret.keys[k])

\* the call gave f as many keys as f takes
ArityFits == ret.f = "at_least_one" => Len(ret.keys) = 1

\* the model numbers of the history of the log directory
HistoryModels == Range(bulk_data.cols[ModelNumber])

\* the number in the column key of the history row with model number m
HistoryValue(key, m) ==
    LET v == bulk_data.cols[ModelNumber]
    IN  bulk_data.cols[key][CHOOSE i \in DOMAIN v : v[i] = m]

\* f is true of the history values of the keys at model number m
Holds(f, keys, m) ==
    CASE f = "always_true" -> TRUE
      [] f = "always_false" -> FALSE
      [] f = "at_least_one" -> HistoryValue(keys[1], m) >= 1

\* C16: select_models(f, *keys) with keys that are columns of the history
\* returns, in ascending order, exactly the catalog model numbers at which f
\* is true of the history values; an always-true f returns model_numbers as
\* it is and an always-false f an empty result.  This holds for every log
\* directory, whichever of the catalog's model numbers the history holds.
C16_SelectsExactly ==
    (SelectCalled /\ KeysPresent /\ ArityFits) =>
        /\ ret.kind = "ok"
        /\ NonDecreasing(ret.res)
        /\ ret.f = "always_true" => ret.res = logdir.model_numbers
        /\ ret.f = "always_false" => ret.res = <<>>
        /\ \A m \in Range(logdir.model_numbers) \cap HistoryModels :
              m \in Range(ret.res) <=> Holds(ret.f, ret.keys, m)

\* a step that is a call of select_models
SelectStep == ret'.op = "select_models" /\ ret' # ret

\* some key of the call that the step makes is not resolvable in the history
SomeKeyUnresolvable == \E k \in DOMAIN ret'.keys : ~_any_version(bulk_names, ret'.keys[k])

\* C17: a call of select_models with a key that is not resolvable in the
\* history fails with KeyError before any history lookup and before f is
\* called, and leaves the history, the catalog and the cache as they were.
C17_UnresolvableKeyFailsFirst ==
    [][(SelectStep /\ SomeKeyUnresolvable) =>
          /\ ret'.kind = "KeyError"
          /\ ret'.lookups = 0
          /\ ret'.evaluations = 0
          /\ UNCHANGED <<mdvars, profiles, logdir>>]_vars

\* such a call was made, the unresolvable key being the second one, on a log
\* directory with a profile in its cache
C17_Witness ==
    /\ SelectCalled
    /\ ret.keys = <<"model_number", "zone">>
    /\ ret.kind = "KeyError"
    /\ ret.key = "zone"
    /\ logdir.profile_dict # <<>>

\* every key of the call is resolvable in the history
KeysResolvable == \A k \in DOMAIN ret.keys : _any_version(bulk_names, ret.keys[k])

\* C18 as stated: select_models accepts every key that the resolver can
\* resolve in the history, a key L with the only column log_L included.
C18_AcceptsResolvable ==
    (SelectCalled /\ KeysResolvable) => ret.kind # "KeyError"

\* C18: select_models accepts exactly the keys that are columns of the
\* history: it raises KeyError, with no lookup made and f never called, if and
\* only if some key is not a column, whether the resolver resolves that key or
\* not; a call that returns has selected by the values of the columns.
C18_AcceptsColumnsOnly ==
    SelectCalled =>
        /\ ret.kind = "KeyError" <=> ~KeysPresent
        /\ ret.kind = "KeyError" => (ret.lookups = 0 /\ ret.evaluations = 0)
        /\ ret.kind = "ok" =>
              \A m \in Range(logdir.model_numbers) :
                  m \in Range(ret.res) <=> Holds(ret.f, ret.keys, m)

\* select_models(f, 'L') was called on a history with the column log_L and
\* no column L, and raised KeyError
C18_Witness ==
    /\ SelectCalled
    /\ ret.keys = <<"L">>
    /\ in_data(bulk_names, "log_L")
    /\ ~in_data(bulk_names, "L")
    /\ _any_version(bulk_names, "L")
    /\ ret.kind = "KeyError"

-----------------------------------------------------------------------------
(* The index of a model number.                                            *)

\* the rows (from 1) of the table whose model number is m
RowsWithModel(m) == {i \in DOMAIN TableModels : TableModels[i] = m}

\* the outcome of looking for the row of model number m in a history of one
\* dimension: the kind, and the row if there is exactly one
RowOutcome(m) ==
    IF RowsWithModel(m) = {} THEN "ModelNumberError: none"
    ELSE IF Cardinality(RowsWithModel(m)) > 1 THEN "ModelNumberError: more than one"
    ELSE "ok"

TheRow(m) == CHOOSE i \in RowsWithModel(m) : TRUE

-----------------------------------------------------------------------------
(* A model number without a profile.                                       *)

\* a step that is a call of profile_with_model_number on the log directory
LookupStep == ret'.op = "MesaLogDir.profile_with_model_number" /\ ret' # ret

\* the model numbers of the entries of the catalog that the log directory
\* read from the index file
CatalogModels == {index_file[i][1] : i \in DOMAIN index_file}

\* C20: profile_with_model_number(m) raises ProfileError exactly when no
\* entry of the catalog has model number m, which is exactly when
\* have_profile_with_model_number(m) is false; profile_data(model_number = m)
\* for such an m fails with ProfileError, parses no file and leaves the cache
\* as it was.
C20_ProfileErrorIffNoEntry ==
    [][/\ LookupStep =>
             /\ ret'.kind = "ProfileError" <=> ret'.m_num \notin CatalogModels
             /\ ret'.kind = "ProfileError" <=>
                   ~have_profile_with_model_number(index_names, profiles, ret'.m_num).val
       /\ (ProfileDataStep /\ ret'.model_number # -1
              /\ ret'.model_number \notin CatalogModels) =>
             /\ ret'.kind = "ProfileError"
             /\ ~ret'.parsed
             /\ UNCHANGED logdir]_vars

\* profile_data(model_number = m) was called for an m without an entry, on a
\* log directory with a profile in its cache, and raised ProfileError
C20_Witness ==
    /\ ret.op = "profile_data"
    /\ ret.model_number # -1
    /\ ret.model_number \notin CatalogModels
    /\ ret.profile_number = -1
    /\ ret.kind = "ProfileError"
    /\ logdir.profile_dict # <<>>

-----------------------------------------------------------------------------
(* The parser of model files (read_model_data).                            *)

\* the line that the running read_model_data is at
ScanLine == line_at(scan.lines, scan.i)

\* the parser is about to read, as a header line, a name and a value that
\* cannot be converted to a number
AtOddHeaderLine ==
    /\ scan.pc = "header"
    /\ Len(ScanLine) = 2
    /\ eval_number(ScanLine[2]).kind # "ok"

\* C21: a header line whose value cannot be converted to a number does not
\* end the parse: the name is appended, the header mapping holds the token
\* as a string under it, and the parser goes on with the next line.
C21_OddHeaderValueKept ==
    [][AtOddHeaderLine =>
          /\ header_names' = Append(header_names, ScanLine[1])
          /\ header_data'[ScanLine[1]] = PyStr(ScanLine[2])
          /\ scan'.pc \in {"header", "blanks2"} \/ ret'.kind = "IndexError"]_vars

-----------------------------------------------------------------------------
(* The parser of history files (read_log_data), line by line.              *)

\* the lines of the file that the last call read
FileLines == history_file.lines

NoCommentInFile == \A k \in DOMAIN FileLines : ~HasComment(FileLines[k])

\* a call that read the file has ended
TextRead == ret.op \in {"MesaData", "read_data"}

\* the numbers that the tokens of a header line denote
HeaderNumbers(tokens) == [k \in DOMAIN tokens |-> PyInt(int_of(tokens[k]))]

\* the rows of the table, one tuple per row in the order of bulk_names
TableTuples ==
    IF bulk_names = <<>> THEN <<>>
    ELSE [r \in DOMAIN bulk_data.cols[bulk_names[1]] |->
            [c \in DOMAIN bulk_names |-> bulk_data.cols[bulk_names[c]][r]]]

\* the table holds the rows that remove_backups leaves of the lines of the
\* file from line number first on
RowsFromLine(first) ==
    LET rows == [r \in 1..(Len(FileLines) - first + 1) |->
                    [c \in DOMAIN FileLines[first + r - 1] |->
                        int_of(FileLines[first + r - 1][c])]]
        kept == InOrder({r \in DOMAIN rows :
                            \A q \in DOMAIN rows : q > r => rows[r][1] < rows[q][1]})
    IN  TableTuples = [k \in DOMAIN kept |-> rows[kept[k]]]

\* C22: with the line configuration as the class has it, a file without
\* comments is read with the header names from line 1, the header values from
\* line 2, the column names from line 4 and the data rows from line 5 on.
C22_LinesAsDocumented ==
    (TextRead /\ NoCommentInFile) =>
        /\ ret.kind = "ok"
        /\ header_names = FileLines[1]
        /\ header_data = dict_zip(FileLines[1], HeaderNumbers(FileLines[2]))
        /\ bulk_names = FileLines[4]
        /\ RowsFromLine(5)

-----------------------------------------------------------------------------
(* The table that a parser, a reload or remove_backups leaves.             *)

\* a call has returned a table to its caller
TableProduced == constructed /\ scan = NoScan /\ ret.kind = "ok"

\* the number of rows of a column (a column of a 0-d array has no length)
ColumnLength(name) ==
    IF bulk_data.ndim = 0 THEN 0 ELSE Len(bulk_data.cols[name])

\* C23: a table that a parser, a reload or remove_backups returns has
\* columns of one length, no column name twice, and a header mapping whose
\* keys are exactly the header names.
C23_TableInvariant ==
    TableProduced =>
        /\ Range(header_names) = DOMAIN header_data
        /\ Unique(bulk_names)
        /\ \A a, b \in DOMAIN bulk_data.cols : ColumnLength(a) = ColumnLength(b)

-----------------------------------------------------------------------------
(* The sections of a model file.                                           *)

\* the first line of kind blank or not (as blank says) after line k of the
\* file, lines counted from 1 at the top; 0 when there is none
NextLine(blank, k) ==
    LET S == {j \in DOMAIN FileLines : j > k /\ (FileLines[j] = <<>>) = blank}
    IN  IF S = {} THEN 0 ELSE Min(S)

\* where the sections of the file begin and end: the first blank line, the
\* first header line, the blank line after the header, the line of names
\* and the blank line after the rows
FirstBlank == NextLine(TRUE, 0)

HeaderStart == IF FirstBlank = 0 THEN 0 ELSE NextLine(FALSE, FirstBlank)

HeaderEnd == IF HeaderStart = 0 THEN 0 ELSE NextLine(TRUE, HeaderStart)

NamesAt == IF HeaderEnd = 0 THEN 0 ELSE NextLine(FALSE, HeaderEnd)

RowsEnd == IF NamesAt = 0 THEN 0 ELSE NextLine(TRUE, NamesAt)

HeaderLines == SubSeq(FileLines, HeaderStart, HeaderEnd - 1)

RowLines == SubSeq(FileLines, NamesAt + 1, RowsEnd - 1)

\* the file has every section, each header line is a name and a number, and
\* each row is one number for the zone and one for each name
WellFormedModel ==
    /\ RowsEnd # 0
    /\ \A k \in DOMAIN HeaderLines : header_pair(HeaderLines[k]).kind = "ok"
    /\ \A r \in DOMAIN RowLines :
          /\ eval_all(RowLines[r]).kind = "ok"
          /\ Len(RowLines[r]) = Len(FileLines[NamesAt]) + 1

\* a call that read the model file has ended
ModelRead == ret.op \in {"MesaData", "read_data"} /\ scan = NoScan /\ ret.kind # "OSError"

\* C24: read_model_data takes the sections of a file as the blank lines
\* delimit them, counted from the top of the file: the header pairs between
\* the first and the second run of blank lines, the names (after 'zone') from
\* the next line, and the rows up to the next blank line.
C24_SectionsFromTheTop ==
    (ModelRead /\ WellFormedModel) =>
        /\ ret.kind = "ok"
        /\ header_names = [k \in DOMAIN HeaderLines |-> HeaderLines[k][1]]
        /\ \A k \in DOMAIN HeaderLines :
              header_data[HeaderLines[k][1]] = header_pair(HeaderLines[k]).val.val
        /\ bulk_names = <<"zone">> \o FileLines[NamesAt]
        /\ \A c \in DOMAIN bulk_names :
              bulk_data.cols[bulk_names[c]] =
                  [r \in DOMAIN RowLines |-> eval_all(RowLines[r]).val[c]]

-----------------------------------------------------------------------------
(* Termination of read_model_data.                                         *)

\* a section is missing from the file: the blank lines do not delimit a
\* preamble, a header, a line of names and a block of rows
SectionMissing == RowsEnd = 0

\* C25 as stated: the parser comes to an end on every file, and on a file
\* with a section missing it ends with an index out of range.
C25_OutOfRangeOnMissingSection ==
    /\ [](ModelRead /\ SectionMissing => ret.kind = "IndexError")
    /\ (scan.pc # "idle") ~> (scan.pc = "idle")

\* C25, amended: the parser comes to an end on every file; on a file with a
\* section missing it ends with an exception (an index out of range when
\* the file ends too early, the exception of reading a line of one section as
\* a line of another otherwise), and a constructor leaves no object.
C25_TerminatesAndFails ==
    /\ (scan.pc # "idle") ~> (scan.pc = "idle")
    /\ [](ModelRead /\ SectionMissing =>
            /\ ret.kind \in {"IndexError", "ValueError", "NameError", "SyntaxError"}
            /\ ret.op = "MesaData" => ~constructed)
    /\ [][scan.pc # "idle" => scan' = NoScan \/ scan'.i > scan.i]_vars

\* a call on a file without a header block has ended
C25_Witness ==
    /\ ModelRead
    /\ SectionMissing
    /\ HeaderEnd # 0
    /\ ret.kind = "ValueError"

-----------------------------------------------------------------------------
(* What remove_backups changes and what it leaves.                         *)

\* the column col without the rows D (rows counted from 1), the others in
\* their order
WithoutRows(col, D) ==
    LET kept == InOrder(DOMAIN col \ D)
    IN  [k \in DOMAIN kept |-> col[kept[k]]]

\* the rows of the table, counted from 1
RowNumbers == IF bulk_names = <<>> THEN {} ELSE DOMAIN bulk_data.cols[bulk_names[1]]

\* C26: a call of remove_backups takes one set of rows out of every column,
\* leaves the other rows as they are and in their order, and leaves the
\* header names, the header values, the column names and the file name; on
\* a table without a model_number column it changes nothing and raises
\* nothing.
C26_RemoveBackupsFrame ==
    [][ret'.op = "remove_backups" =>
          /\ \E D \in SUBSET RowNumbers :
                /\ DOMAIN bulk_data'.cols = DOMAIN bulk_data.cols
                /\ \A n \in DOMAIN bulk_data.cols :
                      bulk_data'.cols[n] = WithoutRows(bulk_data.cols[n], D)
          /\ UNCHANGED <<header_names, header_data, bulk_names, file_name>>
          /\ ModelNumber \notin Range(bulk_names) =>
                bulk_data' = bulk_data /\ ret'.kind = "ok"]_vars

\* remove_backups has taken two rows or more out of a table
C26_Witness ==
    /\ ret.op = "remove_backups"
    /\ Len(ret.to_remove) >= 2
    /\ \A n \in DOMAIN bulk_data.cols :
          Len(bulk_data.cols[n]) + Len(ret.to_remove) = Len(history_file.rows)

-----------------------------------------------------------------------------
(* Comment lines in a history file.                                        *)

\* the positions (from 1) of the comment lines of the file
CommentsAt == {k \in DOMAIN FileLines : HasComment(FileLines[k])}

\* what read_log_data makes of the file with its comment lines taken out
CleanRead == read_log_text(without_comments(FileLines), None)

\* a step that reads the file as it is
ReadsFile == history_file' = history_file /\ ret'.op \in {"MesaData", "read_data"}

\* the step leaves the header that the file without its comment lines gives
HeaderAsClean ==
    /\ ret'.kind = CleanRead.kind
    /\ CleanRead.kind = "ok" =>
          /\ header_names' = CleanRead.header_names
          /\ header_data' = CleanRead.header_data

\* the step leaves the table that the file without its comment lines gives
TableAsClean ==
    /\ ret'.kind = CleanRead.kind
    /\ CleanRead.kind = "ok" =>
          /\ bulk_names' = CleanRead.bulk_names
          /\ bulk_data' = CleanRead.bulk_data

\* C27 as stated: a comment line before or between the line of header names
\* and the line of header values changes nothing of the header that is read.
C27_CommentsSkippedInHeader ==
    [][(ReadsFile /\ \E c \in CommentsAt : c <= header_names_line + 1)
          => HeaderAsClean]_vars

\* C27, amended: a comment line after the line of column names is skipped,
\* header and table are those of the file without it; the header names and
\* header values are taken by line number, and a comment line before or
\* between them gives another header or an exception.
C27_CommentsSkippedInDataOnly ==
    [][ReadsFile =>
          /\ (CommentsAt # {} /\ \A c \in CommentsAt : c > bulk_names_line)
                => (HeaderAsClean /\ TableAsClean)
          /\ (\E c \in CommentsAt : c <= header_names_line + 1) => ~HeaderAsClean]_vars

\* a file with a comment line among its rows has been read, and one with a
\* comment line above its header values has
C27_Witness ==
    /\ TextRead
    /\ ret.kind = "ok"
    /\ CommentsAt # {}
    /\ \A c \in CommentsAt : c > bulk_names_line /\ c < Len(FileLines)
    /\ header_names = TextHeaderNames
    /\ bulk_names = HistoryNames

-----------------------------------------------------------------------------
(* The existence test and the accessor.                                    *)

\* what data(key) gives on the table as it is
DataNow(key) == data(bulk_names, bulk_data, key)

\* C28: _any_version(key) is true exactly when data(key) returns a column,
\* data(key) raises nothing but KeyError, and attribute access goes on to
\* the header exactly for the keys on which data(key) raises.
C28_ExistenceAgreesWithAccessor ==
    /\ ret.op = "_any_version" => (ret.res <=> DataNow(ret.key).kind = "ok")
    /\ ret.op = "data" =>
          /\ ret.res.kind \in {"ok", "KeyError"}
          /\ ret.res.kind = "ok" <=> _any_version(bulk_names, ret.key)
    /\ ret.op = "__getattr__" =>
          IF DataNow(ret.key).kind = "ok" THEN ret.res = DataNow(ret.key)
          ELSE ret.res = IF in_header(header_names, ret.key)
                            THEN header(header_names, header_data, ret.key)
                            ELSE Raised("AttributeError")

\* attribute access has gone on to the header for a key that is no column in
\* any version
C28_Witness ==
    /\ ret.op = "__getattr__"
    /\ ~_any_version(bulk_names, ret.key)
    /\ DataNow(ret.key) = Raised("KeyError")
    /\ ret.res = header(header_names, header_data, ret.key)
    /\ ret.res.kind = "ok"

-----------------------------------------------------------------------------
(* A loaded catalog and the class attribute index_names.                   *)

\* the names under which the loaded catalog keeps its columns: the value of
\* index_names when the file was read
LoadedNames == CHOOSE names \in IndexNameArrays : Range(names) = DOMAIN profiles.index_data

\* the class attribute has been set since the catalog was read
NamesChanged == profiles.exists /\ Range(index_names) # DOMAIN profiles.index_data

\* C29: a lookup in a loaded catalog gives what it gave when the catalog was
\* read, whatever index_names has been set to since.
C29_LoadedCatalogKeepsBehaviour ==
    /\ ret.op = "MesaProfileIndex.data" =>
          ret.res = index_data_of(LoadedNames, profiles.index_data, ret.key)
    /\ ret.op = "have_profile_with_model_number" =>
          ret.res = have_profile_with_model_number(LoadedNames, profiles, ret.m_num)
    /\ ret.op = "have_profile_with_profile_number" =>
          ret.res = have_profile_with_profile_number(LoadedNames, profiles, ret.p_num)
    /\ ret.op = "MesaProfileIndex.profile_with_model_number" =>
          ret.res = profile_with_model_number(LoadedNames, profiles, ret.m_num)

-----------------------------------------------------------------------------
(* read_logs on a log directory that exists.                               *)

\* the history, the catalog and the cache of the log directory
LogDirParts ==
    <<file_name, bulk_names, bulk_data, header_names, header_data, profiles, logdir>>

\* C30: a call of read_logs that raises leaves the history, the catalog, the
\* model numbers, the profile numbers and the cache of the log directory as
\* they were before the call.
C30_ReadLogsAllOrNothing ==
    [][(ret'.op = "read_logs" /\ ret'.kind # "ok") => UNCHANGED LogDirParts]_vars

=============================================================================
